---------------------------- MODULE Spec2Model ----------------------------
(***************************************************************************)
(* A model of the BLiP SDK extensions (src/src/blip_sdk/extensions).       *)
(*                                                                         *)
(* Every public operation of an extension validates its arguments, builds  *)
(* one command (or message) envelope, hands it to the underlying client    *)
(* and, when the client has answered, reshapes the answer.  The model      *)
(* keeps, for the call in progress: the operation and its arguments, the   *)
(* envelopes handed to the client, the client's answer and the value or    *)
(* error the call ends with.                                               *)
(*                                                                         *)
(* Python values are modelled as follows.  A str is a sequence of tokens   *)
(* (single characters, or literal chunks such as "/buckets/" that contain  *)
(* unreserved characters only); None is the one-token sequence None below. *)
(* A dict is a function from its keys; an object is a record.              *)
(***************************************************************************)
EXTENDS Integers, Sequences, FiniteSets, TLC

\* ------------------------------------------------------------------ bounds

\* Longest identifier / name argument tried, in characters.
MaxStrLen == 1

\* Most items in a collection response.
MaxItems == 2

\* ------------------------------------------------------------ Python values

\* Python's None where a str is expected: no sequence of characters equals it.
None == <<"<None>">>

\* The characters identifiers are made of: a letter, and a blank (which is
\* whitespace and also reserved in a URI).
Chars == {"a", " "}

RECURSIVE StringsUpTo(_)
StringsUpTo(n) ==
  IF n = 0 THEN {<<>>}
  ELSE LET shorter == StringsUpTo(n - 1)
       IN  shorter \cup {Append(s, c) : s \in shorter, c \in Chars}

\* The values tried for a str argument: None, "", " ", "a", ...
StrArgs == {None} \cup StringsUpTo(MaxStrLen)

\* bool(x) of a str-or-None: None and "" are false.
Truthy(s) == s # None /\ s # <<>>

\* str.isspace(): non-empty and whitespace only.
IsSpace(s) == Len(s) > 0 /\ \A i \in 1..Len(s) : s[i] = " "

\* str(x) of a str-or-None.
Str(s) == IF s = None THEN <<"N", "o", "n", "e">> ELSE s

\* urllib.parse.quote(c, safe='') of one token: every character that is not
\* unreserved becomes its %XX escape.
QuoteChar(c) ==
  CASE c = " " -> <<"%", "2", "0">>
    [] c = "/" -> <<"%", "2", "F">>
    [] c = "@" -> <<"%", "4", "0">>
    [] c = "%" -> <<"%", "2", "5">>
    [] c = "'" -> <<"%", "2", "7">>
    [] OTHER   -> <<c>>

RECURSIVE Quote(_)
Quote(s) == IF s = <<>> THEN <<>> ELSE QuoteChar(Head(s)) \o Quote(Tail(s))

\* lime_python Identity: an object (or None) with a name and a domain.
NoneIdentity == [isNone |-> TRUE, name |-> None, domain |-> None]

Identity(name, domain) == [isNone |-> FALSE, name |-> name, domain |-> domain]

\* str(identity): name@domain.
IdentityStr(i) ==
  IF i.isNone THEN Str(None)
  ELSE IF Truthy(i.domain) THEN Str(i.name) \o <<"@">> \o i.domain
  ELSE Str(i.name)

\* An object is true unless it is None.
IdentityTruthy(i) == ~i.isNone

\* The identities passed as arguments, and None.
IdentityArgs ==
  {NoneIdentity} \cup {Identity(n, <<"d.com">>) : n \in {<<"u">>, <<"u", " ">>}}

\* The identities looked up in the directory: also with an empty or blank domain.
DirectoryIdentityArgs ==
  IdentityArgs \cup {Identity(<<"u">>, d) : d \in {<<>>, <<" ">>}}

\* ---------------------------------------------------------------- resources

\* A command's resource: None, a str or a dict.
NoneRes == [t |-> "none"]

StrRes(s) == [t |-> "str", s |-> s]

DictRes(d) == [t |-> "dict", d |-> d]

EmptyDict == [k \in {} |-> 0]

\* bool(resource): None, "" and {} are false.
ResTruthy(r) ==
  CASE r.t = "none" -> FALSE
    [] r.t = "str"  -> r.s # <<>>
    [] r.t = "dict" -> DOMAIN r.d # {}

IsDict(r) == r.t = "dict"

\* dict.get(key, default)
Get(d, key, default) == IF key \in DOMAIN d THEN d[key] ELSE default

\* ------------------------------------------------------- errors and outcomes

\* An error message or a failure reason: a sequence of words.
\* str.lower() of one word.
LowerWord(w) ==
  CASE w = "Resource"  -> "resource"
    [] w = "Not Found" -> "not found"
    [] w = "Host"      -> "host"
    [] w = "Invalid"   -> "invalid"
    [] w = "Connection" -> "connection"
    [] w = "Error"     -> "error"
    [] w = "Proxy"     -> "proxy"
    [] OTHER           -> w

\* `word in str(e).lower()` and `word in str(e)`
InLower(word, msg) == \E i \in 1..Len(msg) : LowerWord(msg[i]) = word

In(word, msg) == \E i \in 1..Len(msg) : msg[i] = word

\* How a call, or a step of it, ends.
Pending == [kind |-> "pending"]

Return(v) == [kind |-> "return", value |-> v]

Raise(error, message) == [kind |-> "raise", error |-> error, message |-> message]

\* The values operations return.
NoneVal == [t |-> "none"]

BoolVal(b) == [t |-> "bool", b |-> b]

CommandVal(c) == [t |-> "command", c |-> c]

\* ----------------------------------------------------------------- commands

\* lime_python Command: a request (status None) or a response.
Command(method, uri, type, resource) ==
  [method |-> method, uri |-> uri, type |-> type, resource |-> resource,
   to |-> None, status |-> "none", reason |-> <<>>]

\* lime_python Message.
Message(id, to, content) ==
  [isNone |-> FALSE, id |-> id, from_n |-> NoneIdentity, to |-> to, content |-> content]

\* What is handed to the client: a command or a message.
CommandEnv(c) == [kind |-> "command", command |-> c]

MessageEnv(m) == [kind |-> "message", message |-> m]

\* The step an operation takes when invoked: it raises, or it hands one
\* envelope to the client through `via` and applies `then` to the answer.
Send(env, via, then) == [kind |-> "send", env |-> env, via |-> via, then |-> then]

\* --------------------------------------------------- ExtensionBase contract

\* ExtensionBase.build_uri(template, segment): the segment, percent-encoded,
\* takes the place of {0}.
BuildUri(template, segment) ==
  LET i == CHOOSE k \in 1..Len(template) : template[k] = "{0}"
  IN  SubSeq(template, 1, i - 1) \o Quote(Str(segment)) \o SubSeq(template, i + 1, Len(template))

\* A query mapping: a sequence of <<name, value>> pairs, value a str or None.
\* ExtensionBase.build_resource_query(uri, params): entries whose value is
\* unset or empty are skipped.
\* A query builder that writes every entry, set or not.
RECURSIVE QueryString_KeepUnset(_, _)
QueryString_KeepUnset(params, first) ==
  IF params = <<>> THEN <<>>
  ELSE LET p == Head(params)
       IN  <<(IF first THEN "?" ELSE "&"), p[1], "=">> \o Quote(Str(p[2]))
             \o QueryString_KeepUnset(Tail(params), FALSE)

RECURSIVE QueryString(_, _)
QueryString(params, first) ==
  IF params = <<>> THEN <<>>
  ELSE LET p == Head(params)
       IN  IF Truthy(p[2])
           THEN <<(IF first THEN "?" ELSE "&"), p[1], "=">> \o Quote(p[2])
                  \o QueryString(Tail(params), FALSE)
           ELSE QueryString(Tail(params), first)

BuildResourceQuery(uri, params) == uri \o QueryString(params, TRUE)

\* ExtensionBase.create_get_command / create_delete_command(uri): no payload.
\* `to` is the address the extension instance was constructed with.
CreateGetCommand(to, uri) == [Command("get", uri, None, NoneRes) EXCEPT !.to = to]

CreateDeleteCommand(to, uri) == [Command("delete", uri, None, NoneRes) EXCEPT !.to = to]

\* ExtensionBase.create_set_command / create_merge_command(uri, resource, type)
CreateSetCommand(to, uri, resource, type) ==
  [Command("set", uri, type, resource) EXCEPT !.to = to]

CreateMergeCommand(to, uri, resource, type) ==
  [Command("merge", uri, type, resource) EXCEPT !.to = to]

\* `command.to = address`
WithTo(command, address) == [command EXCEPT !.to = address]

\* The underlying client's answer to a command: a response envelope, or a
\* transport error raised instead of it.
NoReply == [kind |-> "none"]

Response(status, resource, reason) ==
  [kind |-> "response", status |-> status, resource |-> resource, reason |-> reason]

TransportError(message) == [kind |-> "transport", message |-> message]

Delivered == [kind |-> "delivered"]

\* ExtensionBase.process_command_async(command): the single dispatch point.
\* A transport error is surfaced; a failure response raises a typed failure
\* carrying the server's reason; a success returns the response envelope.
BaseProcessCommand(reply) ==
  CASE reply.kind = "transport"  -> Raise("TransportError", reply.message)
    [] reply.status = "failure"  -> Raise("CommandFailure", reply.reason)
    [] OTHER                     -> Return(CommandVal(reply))

\* ------------------------------------------------------ response reshaping

\* BroadcastExtension.DocumentCollection(items, total)
DocumentCollection(items, total) == [t |-> "collection", items |-> items, total |-> total]

\* BroadcastExtension._parse_document_collection(result)
ParseDocumentCollection(result) ==
  IF ResTruthy(result.resource) /\ IsDict(result.resource)
  THEN LET items == Get(result.resource.d, "items", <<>>)
           total == Get(result.resource.d, "total", Len(items))
       IN  DocumentCollection(items, total)
  ELSE DocumentCollection(<<>>, 0)

\* A plain list of the response's items.
ListVal(items) == [t |-> "list", items |-> items]

\* The items of the response, last first.
ParseItemsResponse_Reversed(result) ==
  IF ResTruthy(result.resource) /\ IsDict(result.resource)
  THEN LET items == Get(result.resource.d, "items", <<>>)
       IN  ListVal([i \in 1..Len(items) |-> items[Len(items) + 1 - i]])
  ELSE ListVal(<<>>)

\* SchedulerExtension._parse_scheduled_messages_response,
\* BuilderExtension._parse_flows_response, DelegationExtension.
\* _parse_delegations_response and TunnelExtension._parse_tunnels_response
\* are the same function.
ParseItemsResponse(result) ==
  IF ResTruthy(result.resource) /\ IsDict(result.resource)
  THEN ListVal(Get(result.resource.d, "items", <<>>))
  ELSE ListVal(<<>>)

\* ThreadsExtension.Thread(id, owner_identity, participants, created_date)
Thread(d) ==
  [t |-> "thread",
   id |-> Get(d, "id", None),
   owner_identity |-> Get(d, "ownerIdentity", None),
   participants |-> Get(d, "participants", <<>>),
   created_date |-> Get(d, "createdDate", None)]

\* ThreadsExtension._parse_thread_response(result)
ParseThreadResponse(result) ==
  IF ResTruthy(result.resource) /\ IsDict(result.resource)
  THEN Thread(result.resource.d)
  ELSE NoneVal

\* ThreadsExtension._parse_threads_collection_response(result): one Thread
\* per item, appended in the order of the response.
ParseThreadsCollectionResponse(result) ==
  IF ResTruthy(result.resource) /\ IsDict(result.resource)
  THEN LET items == Get(result.resource.d, "items", <<>>)
       IN  ListVal([i \in 1..Len(items) |-> Thread(items[i])])
  ELSE ListVal(<<>>)

\* HelpDeskExtension.Ticket(id, status, customer_identity, agent_identity, context)
Ticket(d) ==
  [t |-> "ticket",
   id |-> Get(d, "id", None),
   status |-> Get(d, "status", None),
   customer_identity |-> Get(d, "customerIdentity", None),
   agent_identity |-> Get(d, "agentIdentity", None),
   context |-> Get(d, "context", None)]

\* HelpDeskExtension._parse_ticket_response(result)
ParseTicketResponse(result) ==
  IF ResTruthy(result.resource) /\ IsDict(result.resource)
  THEN Ticket(result.resource.d)
  ELSE NoneVal

\* A parser that takes the last ticket of the collection.
ParseTicketCollectionResponse_Last(result) ==
  IF ResTruthy(result.resource) /\ IsDict(result.resource)
  THEN LET items == Get(result.resource.d, "items", <<>>)
       IN  IF items # <<>> THEN Ticket(items[Len(items)]) ELSE NoneVal
  ELSE NoneVal

\* HelpDeskExtension._parse_ticket_collection_response(result): the first item.
ParseTicketCollectionResponse(result) ==
  IF ResTruthy(result.resource) /\ IsDict(result.resource)
  THEN LET items == Get(result.resource.d, "items", <<>>)
       IN  IF items # <<>> THEN Ticket(items[1]) ELSE NoneVal
  ELSE NoneVal

\* `result.resource if result.resource else {}` of BuilderExtension.get_flow_async,
\* TunnelExtension.create_tunnel_async and get_tunnel_async.
ResourceVal(r) == [t |-> "resource", r |-> r]

ResourceOrEmpty(result) ==
  IF ResTruthy(result.resource) THEN ResourceVal(result.resource)
  ELSE ResourceVal(DictRes(EmptyDict))

\* ProfileExtension._parse_document_response(result)
ParseDocumentResponse(result) ==
  IF ResTruthy(result.resource) THEN ResourceVal(result.resource) ELSE NoneVal

\* ProfileExtension.PlainText(text)
PlainText(text) == [t |-> "plaintext", text |-> text]

\* ProfileExtension._parse_plain_text_response(result)
ParsePlainTextResponse(result) ==
  IF ResTruthy(result.resource) /\ IsDict(result.resource)
  THEN LET text == Get(result.resource.d, "text", None)
       IN  IF Truthy(text) THEN PlainText(text) ELSE NoneVal
  ELSE IF result.resource.t = "str" THEN PlainText(result.resource.s)
  ELSE NoneVal

\* ProfileExtension.DocumentSelect(header, options, scope)
DocumentSelect(header, options, scope) ==
  [t |-> "documentselect", header |-> header, options |-> options, scope |-> scope]

\* ProfileExtension._parse_document_select_response(result)
ParseDocumentSelectResponse(result) ==
  IF ResTruthy(result.resource) /\ IsDict(result.resource)
  THEN DocumentSelect(Get(result.resource.d, "header", None),
                      Get(result.resource.d, "options", <<>>),
                      Get(result.resource.d, "scope", None))
  ELSE NoneVal

\* DirectoryExtension.Account(identity, full_name, photo_uri, inbox_uri, **kwargs)
AccountKeys == {"identity", "fullName", "photoUri", "inboxUri"}

\* DirectoryExtension._parse_account_response(result)
ParseAccountResponse(result) ==
  IF ResTruthy(result.resource) /\ IsDict(result.resource)
  THEN LET d == result.resource.d
       IN  [t |-> "account",
            identity |-> Get(d, "identity", None),
            full_name |-> Get(d, "fullName", None),
            photo_uri |-> Get(d, "photoUri", None),
            inbox_uri |-> Get(d, "inboxUri", None),
            extras |-> [k \in DOMAIN d \ AccountKeys |-> d[k]]]
  ELSE NoneVal

\* The names Account.__init__ binds itself: a response key among them, passed
\* on in **kwargs beside the keyword of the same name, is a second value for
\* one argument. ("identity" is never passed on.)
AccountParameters == {"self", "full_name", "photo_uri", "inbox_uri"}

\* The tail of get_directory_account_async: the Account, or the TypeError of
\* its construction.
AccountOf(result) ==
  IF /\ ResTruthy(result.resource) /\ IsDict(result.resource)
     /\ (DOMAIN result.resource.d \ AccountKeys) \cap AccountParameters # {}
  THEN Raise("TypeError", <<"Account() got multiple values for keyword argument">>)
  ELSE Return(ParseAccountResponse(result))

\* A str returned by an operation.
StrVal(s) == [t |-> "str", s |-> s]

\* A reading of the text that takes an empty text for a missing one.
GetTextOf_EmptyIsNone(result) ==
  IF ResTruthy(result.resource) /\ "text" \in DOMAIN result.resource.d
     /\ Truthy(result.resource.d["text"])
  THEN StrVal(result.resource.d["text"])
  ELSE NoneVal

\* The tail of BucketExtension.get_text_async: the 'text' of the resource.
GetTextOf(result) ==
  IF ResTruthy(result.resource)
  THEN IF "text" \in DOMAIN result.resource.d
       THEN StrVal(result.resource.d["text"])
       ELSE NoneVal
  ELSE NoneVal

\* -------------------------------------------------------------------- state

\* The calls that may be in flight at once.
Callers == {1, 2}

VARIABLES
  ctorTo,   \* the `to` argument the extension instances were constructed with
  op,       \* per caller: the operation invoked last
  args,     \* its arguments
  pc,       \* "idle", "awaiting" (the client holds the envelope), "answered", "done"
  cont,     \* how the call dispatches and what it does with the answer
  sent,     \* the envelopes the caller's calls have handed to the client, in order
  reply,    \* the client's answer to the envelope
  result    \* how the call ended: a returned value or a raised error

vars == <<ctorTo, op, args, pc, cont, sent, reply, result>>

\* The `to` argument of the constructors: not given, or a custom address.
CustomTo == <<"custom@example.com">>

NoArgs == [none |-> TRUE]

NoCont == [via |-> "none", then |-> "none"]

Init ==
  /\ ctorTo \in {None, CustomTo}
  /\ op = [c \in Callers |-> "none"]
  /\ args = [c \in Callers |-> NoArgs]
  /\ pc = [c \in Callers |-> "idle"]
  /\ cont = [c \in Callers |-> NoCont]
  /\ sent = [c \in Callers |-> <<>>]
  /\ reply = [c \in Callers |-> NoReply]
  /\ result = [c \in Callers |-> Pending]

\* ------------------------------------------------------ the dispatch paths

\* What an awaited dispatch does once the client has answered: how it ends,
\* and the envelopes it hands to the client again (none: nothing is retried).
Awaited(outcome, sends) == [outcome |-> outcome, sends |-> sends]

\* The override without its except clause: every error of the base propagates.
ProfileProcessCommand_NoExcept(command, answer) ==
  Awaited(BaseProcessCommand(answer), <<>>)

\* The override sending the command a second time when the base has failed.
ProfileProcessCommand_Retry(command, answer) ==
  LET o == BaseProcessCommand(answer)
  IN  IF o.kind = "raise" THEN Awaited(o, <<CommandEnv(command)>>) ELSE Awaited(o, <<>>)

\* ProfileExtension.process_command_async(command): the override.  On the
\* caught error it builds a fresh command with no resource and returns it;
\* the fresh command is not sent.
ProfileProcessCommand(command, answer) ==
  LET o == BaseProcessCommand(answer)
  IN  IF o.kind = "raise"
      THEN IF (command.method = "get" /\ InLower("not found", o.message))
              \/ In("404", o.message)
           THEN Awaited(Return(CommandVal(Command(command.method, command.uri, None, NoneRes))),
                        <<>>)
           ELSE Awaited(o, <<>>)
      ELSE Awaited(o, <<>>)

\* `await self.client.send_command_async(command)`: the response is not looked at.
ClientSendCommand(answer) ==
  IF answer.kind = "transport" THEN Raise("TransportError", answer.message)
  ELSE Return(CommandVal(answer))

\* `await self.client.send_message_async(message)`
ClientSendMessage(answer) ==
  IF answer.kind = "transport" THEN Raise("TransportError", answer.message)
  ELSE Return(NoneVal)

\* The awaited dispatch of a call, once the client has answered.
Dispatched(via, env, answer) ==
  CASE via = "process_command_async" -> Awaited(BaseProcessCommand(answer), <<>>)
    [] via = "ProfileExtension.process_command_async" ->
         ProfileProcessCommand(env.command, answer)
    [] via = "client.send_command_async" -> Awaited(ClientSendCommand(answer), <<>>)
    [] via = "client.send_message_async" -> Awaited(ClientSendMessage(answer), <<>>)

\* has_recipient_async without its try/except: the error propagates.
HasRecipient_NoExcept(o) ==
  IF o.kind = "raise" THEN o ELSE Return(BoolVal(TRUE))

\* BroadcastExtension.has_recipient_async after the dispatch, which is inside
\* `try: ... return True / except Exception: return False`.
HasRecipient(o) ==
  IF o.kind = "raise" THEN Return(BoolVal(FALSE)) ELSE Return(BoolVal(TRUE))

\* The rest of the operation after the awaited dispatch: an error propagates
\* unless the operation catches it; a response is returned or reshaped.
\* An operation that drops what the dispatch returned.
Reshape_Discard(then, o) ==
  IF o.kind = "raise" THEN o ELSE Return(NoneVal)

Reshape(then, o) ==
  CASE then = "has_recipient" -> HasRecipient(o)
    [] then # "has_recipient" /\ o.kind = "raise" -> o
    [] OTHER ->
       CASE then = "command" -> o
         [] then = "none" -> Return(NoneVal)
         [] then = "get_text" ->
              IF o.value.c.resource.t = "str" /\ ResTruthy(o.value.c.resource)
              THEN Raise("AttributeError", <<"'str' object has no attribute 'get'">>)
              ELSE Return(GetTextOf(o.value.c))
         [] then = "resource_or_empty" -> Return(ResourceOrEmpty(o.value.c))
         [] then = "_parse_document_collection" -> Return(ParseDocumentCollection(o.value.c))
         [] then = "_parse_items_response" -> Return(ParseItemsResponse(o.value.c))
         [] then = "_parse_thread_response" -> Return(ParseThreadResponse(o.value.c))
         [] then = "_parse_threads_collection_response" ->
              Return(ParseThreadsCollectionResponse(o.value.c))
         [] then = "_parse_ticket_response" -> Return(ParseTicketResponse(o.value.c))
         [] then = "_parse_ticket_collection_response" ->
              Return(ParseTicketCollectionResponse(o.value.c))
         [] then = "_parse_document_response" -> Return(ParseDocumentResponse(o.value.c))
         [] then = "_parse_plain_text_response" -> Return(ParsePlainTextResponse(o.value.c))
         [] then = "_parse_document_select_response" ->
              Return(ParseDocumentSelectResponse(o.value.c))
         [] then = "_parse_account_response" -> AccountOf(o.value.c)

\* --------------------------------------------------------- the call's steps

\* Caller c's call of operation `o` with arguments `a`: `start` is what the
\* operation's code does up to its first await, a raise or the dispatch of
\* one envelope; `earlier` are the envelopes of the caller's earlier calls.
Call(c, o, a, start, earlier) ==
  /\ op' = [op EXCEPT ![c] = o]
  /\ args' = [args EXCEPT ![c] = a]
  /\ reply' = [reply EXCEPT ![c] = NoReply]
  /\ IF start.kind = "send"
     THEN /\ pc' = [pc EXCEPT ![c] = "awaiting"]
          /\ sent' = [sent EXCEPT ![c] = Append(earlier, start.env)]
          /\ cont' = [cont EXCEPT ![c] = [via |-> start.via, then |-> start.then]]
          /\ result' = [result EXCEPT ![c] = Pending]
     ELSE /\ pc' = [pc EXCEPT ![c] = "done"]
          /\ sent' = [sent EXCEPT ![c] = earlier]
          /\ cont' = [cont EXCEPT ![c] = NoCont]
          /\ result' = [result EXCEPT ![c] = start]
  /\ UNCHANGED ctorTo

\* An idle caller invokes an operation.
Invoke(c, o, a, start) ==
  /\ pc[c] = "idle"
  /\ Call(c, o, a, start, <<>>)

\* The caller has the value or the error of the call, and is free to call again.
ReturnToCaller(c) ==
  /\ pc[c] = "done"
  /\ pc' = [pc EXCEPT ![c] = "idle"]
  /\ op' = [op EXCEPT ![c] = "none"]
  /\ args' = [args EXCEPT ![c] = NoArgs]
  /\ cont' = [cont EXCEPT ![c] = NoCont]
  /\ sent' = [sent EXCEPT ![c] = <<>>]
  /\ reply' = [reply EXCEPT ![c] = NoReply]
  /\ result' = [result EXCEPT ![c] = Pending]
  /\ UNCHANGED ctorTo

\* The words of failure reasons and of transport errors.
FailureReasons ==
  {<<"Resource", "not found">>, <<"Resource", "Not Found">>, <<"Error", "404">>,
   <<"Invalid", "request">>}

TransportMessages ==
  {<<"Connection", "timed out">>, <<"Host", "not found">>, <<"Proxy", "404">>}

\* The resources a success response may carry.
ItemDicts ==
  {[id |-> <<"1">>],
   [id |-> <<"2">>, ownerIdentity |-> <<"o@d.com">>, status |-> <<"Open">>,
    customerIdentity |-> <<"u@d.com">>, agentIdentity |-> <<"g@d.com">>,
    context |-> <<"ctx">>]}

RECURSIVE SeqsUpTo(_, _)
SeqsUpTo(S, n) ==
  IF n = 0 THEN {<<>>}
  ELSE LET shorter == SeqsUpTo(S, n - 1)
       IN  shorter \cup {Append(q, x) : q \in shorter, x \in S}

ItemSeqs == SeqsUpTo(ItemDicts, MaxItems)

ResponseResources ==
  {NoneRes, DictRes(EmptyDict), StrRes(<<"hi">>), StrRes(<<>>),
   DictRes([text |-> <<"hi">>]),
   DictRes([id |-> <<"1">>, status |-> <<"Open">>, customerIdentity |-> <<"u@d.com">>]),
   DictRes([identity |-> <<"u@d.com">>, fullName |-> <<"U">>, city |-> <<"X">>]),
   DictRes([identity |-> <<"u@d.com">>, full_name |-> <<"V">>])}
  \cup {DictRes([items |-> q, total |-> Len(q)]) : q \in ItemSeqs}
  \cup {DictRes([items |-> q, total |-> Len(q) + 3]) : q \in ItemSeqs}
  \cup {DictRes([items |-> q]) : q \in ItemSeqs}

\* The envelope caller c's call in progress handed to the client.
Envelope(c) == sent[c][Len(sent[c])]

\* The underlying client answers the envelope it holds for caller c.
ClientAnswer(c, answer) ==
  /\ pc[c] = "awaiting"
  /\ reply' = [reply EXCEPT ![c] = answer]
  /\ pc' = [pc EXCEPT ![c] = "answered"]
  /\ UNCHANGED <<ctorTo, op, args, cont, sent, result>>

\* It answers a command with a success response, with a failure response, or
\* fails to transport it; it delivers a message, or fails to.
ClientRespondSuccess(c) ==
  \E r \in ResponseResources :
    /\ pc[c] = "awaiting"
    /\ Envelope(c).kind = "command"
    /\ ClientAnswer(c, Response("success", r, <<>>))

ClientRespondFailure(c) ==
  \E m \in FailureReasons :
    /\ pc[c] = "awaiting"
    /\ Envelope(c).kind = "command"
    /\ ClientAnswer(c, Response("failure", NoneRes, m))

ClientDeliverMessage(c) ==
  /\ pc[c] = "awaiting"
  /\ Envelope(c).kind = "message"
  /\ ClientAnswer(c, Delivered)

ClientTransportFailure(c) ==
  \E m \in TransportMessages : ClientAnswer(c, TransportError(m))

\* A dispatch with a retry loop: a failed command is awaited again.
Resume_RetryLoop(c) ==
  /\ pc[c] = "answered"
  /\ LET d == Dispatched(cont[c].via, Envelope(c), reply[c])
     IN  IF d.outcome.kind = "raise"
         THEN /\ pc' = [pc EXCEPT ![c] = "awaiting"]
              /\ UNCHANGED <<result, sent>>
         ELSE /\ result' = [result EXCEPT ![c] = Reshape(cont[c].then, d.outcome)]
              /\ sent' = [sent EXCEPT ![c] = sent[c] \o d.sends]
              /\ pc' = [pc EXCEPT ![c] = "done"]
  /\ UNCHANGED <<ctorTo, op, args, cont, reply>>

\* A not-found path that empties the command it sent, where the code builds a
\* new one.
Resume_EditSent(c) ==
  /\ pc[c] = "answered"
  /\ LET d == Dispatched(cont[c].via, Envelope(c), reply[c])
     IN  /\ result' = [result EXCEPT ![c] = Reshape(cont[c].then, d.outcome)]
         /\ sent' = IF reply[c].kind = "response" /\ reply[c].status = "failure"
                       /\ d.outcome.kind # "raise" /\ Envelope(c).kind = "command"
                    THEN [sent EXCEPT ![c][Len(sent[c])].command.resource = NoneRes,
                                      ![c][Len(sent[c])].command.to = None]
                    ELSE [sent EXCEPT ![c] = sent[c] \o d.sends]
  /\ pc' = [pc EXCEPT ![c] = "done"]
  /\ UNCHANGED <<ctorTo, op, args, cont, reply>>

\* An operation that forgets the instance's `to` when its dispatch has failed.
Resume_Rebind(c) ==
  /\ pc[c] = "answered"
  /\ LET d == Dispatched(cont[c].via, Envelope(c), reply[c])
     IN  /\ result' = [result EXCEPT ![c] = Reshape(cont[c].then, d.outcome)]
         /\ sent' = [sent EXCEPT ![c] = sent[c] \o d.sends]
         /\ ctorTo' = IF d.outcome.kind = "raise" THEN None ELSE ctorTo
  /\ pc' = [pc EXCEPT ![c] = "done"]
  /\ UNCHANGED <<op, args, cont, reply>>

\* The call resumes with the client's answer and runs to its end.
Resume(c) ==
  /\ pc[c] = "answered"
  /\ LET d == Dispatched(cont[c].via, Envelope(c), reply[c])
     IN  /\ result' = [result EXCEPT ![c] = Reshape(cont[c].then, d.outcome)]
         /\ sent' = [sent EXCEPT ![c] = sent[c] \o d.sends]
  /\ pc' = [pc EXCEPT ![c] = "done"]
  /\ UNCHANGED <<ctorTo, op, args, cont, reply>>

\* ---------------------------------------------------------------- arguments

\* An int argument that may be None.
NoneInt == 0 - 1

SkipArgs == {NoneInt, 0, 2}

TakeArgs == {NoneInt, 5}

\* str(n) of an int-or-None.
IntStr(n) == IF n = NoneInt THEN Str(None) ELSE <<ToString(n)>>

\* An int-or-None as a query value.
IntParam(n) == IF n = NoneInt THEN None ELSE <<ToString(n)>>

\* The documents passed as payloads: None, {} and a document.
DocArgs == {NoneRes, DictRes(EmptyDict), DictRes([text |-> <<"hi">>])}

\* datetime.timedelta or None, in microseconds (the resolution of a
\* timedelta): no time, 1.5 ms, 1.001 s and 1.5 s.
ExpirationArgs == {NoneInt, 0, 1500, 1001000, 1500000}

\* ---------------------------------------------------------- BucketExtension

\* bucket/uri_templates.py
BUCKET == <<"/buckets">>

BUCKET_ITEM == <<"/buckets/", "{0}">>

\* BucketExtension has no constructor of its own: self.to is the argument.
BucketTo == ctorTo

BucketExtension_get_async(c) ==
  \E id \in StrArgs :
    Invoke(c, "BucketExtension.get_async", [id |-> id],
      IF ~Truthy(id) THEN Raise("ValueError", <<"id cannot be None or empty">>)
      ELSE Send(CommandEnv(CreateGetCommand(BucketTo,
                  BuildResourceQuery(BuildUri(BUCKET_ITEM, id), <<>>))),
                "process_command_async", "command"))

BucketExtension_get_ids_async(c) ==
  \E skip \in SkipArgs \ {NoneInt}, take \in TakeArgs \ {NoneInt} :
    Invoke(c, "BucketExtension.get_ids_async", [skip |-> skip, take |-> take],
      Send(CommandEnv(CreateGetCommand(BucketTo,
             BuildResourceQuery(BUCKET, << <<"$skip", IntParam(skip)>>,
                                           <<"$take", IntParam(take)>> >>))),
           "process_command_async", "command"))

\* The durations whose expiration.total_seconds() * 1000, computed in double
\* precision, comes out just under the whole number of milliseconds:
\* 1.001 * 1000 is 1000.9999999999999.
ProductBelowWhole == {1001000}

\* int(expiration.total_seconds() * 1000): the double product, its fraction
\* dropped.
ExpirationMillis(expiration) ==
  IF expiration \in ProductBelowWhole
  THEN (expiration \div 1000) - 1
  ELSE expiration \div 1000

\* The URI of BucketExtension.set_async.  `if expiration:` is false for None
\* and for timedelta(0).
BucketSetUri(id, expiration) ==
  IF expiration # NoneInt /\ expiration # 0
  THEN BuildResourceQuery(BuildUri(BUCKET_ITEM, id),
                          << <<"expiration", <<ToString(ExpirationMillis(expiration))>> >> >>)
  ELSE BuildUri(BUCKET_ITEM, id)

BucketExtension_set_async(c) ==
  \E id \in StrArgs, document \in DocArgs, expiration \in ExpirationArgs :
    Invoke(c, "BucketExtension.set_async",
           [id |-> id, document |-> document, expiration |-> expiration],
      IF ~Truthy(id) THEN Raise("ValueError", <<"id cannot be None or empty">>)
      ELSE IF document = NoneRes THEN Raise("ValueError", <<"document cannot be None">>)
      ELSE Send(CommandEnv(CreateSetCommand(BucketTo, BucketSetUri(id, expiration),
                                            document, None)),
                "process_command_async", "command"))

BucketExtension_delete_async(c) ==
  \E id \in StrArgs :
    Invoke(c, "BucketExtension.delete_async", [id |-> id],
      IF ~Truthy(id) THEN Raise("ValueError", <<"id cannot be None or empty">>)
      ELSE Send(CommandEnv(CreateDeleteCommand(BucketTo,
                  BuildResourceQuery(BuildUri(BUCKET_ITEM, id), <<>>))),
                "process_command_async", "command"))

\* get_text_async awaits get_async and takes the 'text' of its result.
\* BucketExtension.get_text_async(id): it awaits get_async(id) and takes the
\* 'text' of the resource.
GetText(id) ==
  IF ~Truthy(id) THEN Raise("ValueError", <<"id cannot be None or empty">>)
  ELSE Send(CommandEnv(CreateGetCommand(BucketTo,
              BuildResourceQuery(BuildUri(BUCKET_ITEM, id), <<>>))),
            "process_command_async", "get_text")

BucketExtension_get_text_async(c) ==
  \E id \in StrArgs :
    Invoke(c, "BucketExtension.get_text_async", [id |-> id], GetText(id))

\* A str argument as a document value.
TextArgs == {None, <<>>, <<"hi">>}

\* set_text_async awaits set_async with {'text': text} and 'text/plain'.
BucketExtension_set_text_async(c) ==
  \E id \in StrArgs, text \in TextArgs, expiration \in ExpirationArgs :
    Invoke(c, "BucketExtension.set_text_async",
           [id |-> id, text |-> text, expiration |-> expiration],
      IF text = None THEN Raise("ValueError", <<"text cannot be None">>)
      ELSE IF ~Truthy(id) THEN Raise("ValueError", <<"id cannot be None or empty">>)
      ELSE Send(CommandEnv(CreateSetCommand(BucketTo, BucketSetUri(id, expiration),
                                            DictRes([text |-> text]), <<"text/plain">>)),
                "process_command_async", "command"))

\* ------------------------------------------------------- BroadcastExtension

DEFAULT_BROADCAST_DOMAIN == <<"broadcast.msging.net">>

\* self._distribution_list_address = Node("postmaster", DEFAULT_BROADCAST_DOMAIN, None)
DistributionListAddress == <<"postmaster", "@">> \o DEFAULT_BROADCAST_DOMAIN

\* A check of the list name that lets a whitespace-only name through.
ListNameInvalid_NoBlank(list_name) == ~Truthy(list_name)

\* The check of BroadcastExtension.get_list_identity(list_name).
ListNameInvalid(list_name) == ~Truthy(list_name) \/ IsSpace(list_name)

ListNameError == Raise("ValueError", <<"The list name cannot be null or whitespace.">>)

\* BroadcastExtension.get_list_identity(list_name), past its check.
GetListIdentity(list_name) == Identity(list_name, DEFAULT_BROADCAST_DOMAIN)

RecipientError == Raise("ValueError", <<"recipientIdentity cannot be null">>)

\* f"/lists/{quote(str(list_identity), safe='')}"
ListUri(list_name) == <<"/lists/">> \o Quote(IdentityStr(GetListIdentity(list_name)))

BroadcastExtension_create_distribution_list_async(c) ==
  \E list_name \in StrArgs :
    Invoke(c, "BroadcastExtension.create_distribution_list_async", [list_name |-> list_name],
      IF ListNameInvalid(list_name) THEN ListNameError
      ELSE Send(CommandEnv(WithTo(
                  CreateSetCommand(ctorTo, <<"/lists">>,
                    DictRes([identity |-> IdentityStr(GetListIdentity(list_name))]),
                    <<"application/vnd.iris.distribution-list+json">>),
                  DistributionListAddress)),
                "process_command_async", "none"))

BroadcastExtension_get_all_distribution_lists_async(c) ==
  \E skip \in SkipArgs, take \in TakeArgs :
    Invoke(c, "BroadcastExtension.get_all_distribution_lists_async",
           [skip |-> skip, take |-> take],
      Send(CommandEnv(WithTo(CreateGetCommand(ctorTo, <<"/lists">>),
                             DistributionListAddress)),
           "process_command_async", "_parse_document_collection"))

BroadcastExtension_delete_distribution_list_async(c) ==
  \E list_name \in StrArgs :
    Invoke(c, "BroadcastExtension.delete_distribution_list_async", [list_name |-> list_name],
      IF ListNameInvalid(list_name) THEN ListNameError
      ELSE Send(CommandEnv(WithTo(CreateDeleteCommand(ctorTo, ListUri(list_name)),
                                  DistributionListAddress)),
                "process_command_async", "none"))

BroadcastExtension_add_recipient_async(c) ==
  \E list_name \in StrArgs, recipient_identity \in IdentityArgs :
    Invoke(c, "BroadcastExtension.add_recipient_async",
           [list_name |-> list_name, recipient_identity |-> recipient_identity],
      IF ~IdentityTruthy(recipient_identity) THEN RecipientError
      ELSE IF ListNameInvalid(list_name) THEN ListNameError
      ELSE Send(CommandEnv(WithTo(
                  CreateSetCommand(ctorTo, ListUri(list_name) \o <<"/recipients">>,
                    DictRes([value |-> IdentityStr(recipient_identity)]),
                    <<"application/vnd.lime.identity+json">>),
                  DistributionListAddress)),
                "process_command_async", "none"))

\* f"/lists/{quote(...)}/recipients/{quote(str(recipient_identity), safe='')}"
RecipientUri(list_name, recipient_identity) ==
  ListUri(list_name) \o <<"/recipients/">> \o Quote(IdentityStr(recipient_identity))

BroadcastExtension_delete_recipient_async(c) ==
  \E list_name \in StrArgs, recipient_identity \in IdentityArgs :
    Invoke(c, "BroadcastExtension.delete_recipient_async",
           [list_name |-> list_name, recipient_identity |-> recipient_identity],
      IF ~IdentityTruthy(recipient_identity) THEN RecipientError
      ELSE IF ListNameInvalid(list_name) THEN ListNameError
      ELSE Send(CommandEnv(WithTo(
                  CreateDeleteCommand(ctorTo, RecipientUri(list_name, recipient_identity)),
                  DistributionListAddress)),
                "process_command_async", "none"))

\* The dispatch is inside try/except Exception: any error gives False.
BroadcastExtension_has_recipient_async(c) ==
  \E list_name \in StrArgs, recipient_identity \in IdentityArgs :
    Invoke(c, "BroadcastExtension.has_recipient_async",
           [list_name |-> list_name, recipient_identity |-> recipient_identity],
      IF ~IdentityTruthy(recipient_identity) THEN RecipientError
      ELSE IF ListNameInvalid(list_name) THEN ListNameError
      ELSE Send(CommandEnv(WithTo(
                  CreateGetCommand(ctorTo, RecipientUri(list_name, recipient_identity)),
                  DistributionListAddress)),
                "process_command_async", "has_recipient"))

BroadcastExtension_get_recipients_async(c) ==
  \E list_name \in StrArgs, skip \in SkipArgs, take \in TakeArgs :
    Invoke(c, "BroadcastExtension.get_recipients_async",
           [list_name |-> list_name, skip |-> skip, take |-> take],
      IF ListNameInvalid(list_name) THEN ListNameError
      ELSE Send(CommandEnv(WithTo(
                  CreateGetCommand(ctorTo,
                    ListUri(list_name) \o <<"/recipients", "?", "$skip", "=">> \o IntStr(skip)
                      \o <<"&", "$take", "=">> \o IntStr(take)),
                  DistributionListAddress)),
                "process_command_async", "_parse_document_collection"))

\* str(uuid4()): a fresh identifier.
Uuid4 == <<"uuid4">>

\* The optional message id of the operations that send messages.
MessageIdArgs == {None, <<"m1">>}

BroadcastExtension_send_message_async(c) ==
  \E list_name \in StrArgs, content \in DocArgs, id \in MessageIdArgs :
    Invoke(c, "BroadcastExtension.send_message_async",
           [list_name |-> list_name, content |-> content, id |-> id],
      IF ListNameInvalid(list_name) THEN ListNameError
      ELSE Send(MessageEnv(Message(IF Truthy(id) THEN id ELSE Uuid4,
                                   IdentityStr(GetListIdentity(list_name)), content)),
                "client.send_message_async", "none"))

\* --------------------------------------------------------- ProfileExtension

PROFILE_URI == <<"/profile">>

GET_STARTED_ID == <<"get-started">>

PERSISTENT_MENU_ID == <<"persistent-menu">>

GREETING_ID == <<"greeting">>

\* f"{PROFILE_URI}/{ID}"
ProfileUri(id) == PROFILE_URI \o <<"/">> \o id

ProfileExtension_get_get_started_async(c) ==
  Invoke(c, "ProfileExtension.get_get_started_async", NoArgs,
    Send(CommandEnv(CreateGetCommand(ctorTo, ProfileUri(GET_STARTED_ID))),
         "ProfileExtension.process_command_async", "_parse_document_response"))

ProfileExtension_set_get_started_async(c) ==
  \E get_started \in DocArgs :
    Invoke(c, "ProfileExtension.set_get_started_async", [get_started |-> get_started],
      Send(CommandEnv(CreateSetCommand(ctorTo, ProfileUri(GET_STARTED_ID), get_started, None)),
           "ProfileExtension.process_command_async", "_parse_document_response"))

ProfileExtension_delete_get_started_async(c) ==
  Invoke(c, "ProfileExtension.delete_get_started_async", NoArgs,
    Send(CommandEnv(CreateDeleteCommand(ctorTo, ProfileUri(GET_STARTED_ID))),
         "ProfileExtension.process_command_async", "_parse_document_response"))

ProfileExtension_get_greeting_async(c) ==
  Invoke(c, "ProfileExtension.get_greeting_async", NoArgs,
    Send(CommandEnv(CreateGetCommand(ctorTo, ProfileUri(GREETING_ID))),
         "ProfileExtension.process_command_async", "_parse_plain_text_response"))

\* The greetings passed: None, a PlainText object, a plain document.
GreetingArgs ==
  {[t |-> "none"], PlainText(None), PlainText(<<"hi">>), DictRes([text |-> <<"hi">>])}

\* {"text": greeting.text} if hasattr(greeting, 'text') else greeting
GreetingData(greeting) ==
  CASE greeting.t = "plaintext" -> DictRes([text |-> greeting.text])
    [] greeting.t = "none"      -> NoneRes
    [] OTHER                    -> greeting

ProfileExtension_set_greeting_async(c) ==
  \E greeting \in GreetingArgs :
    Invoke(c, "ProfileExtension.set_greeting_async", [greeting |-> greeting],
      Send(CommandEnv(CreateSetCommand(ctorTo, ProfileUri(GREETING_ID),
                                       GreetingData(greeting), None)),
           "ProfileExtension.process_command_async", "_parse_document_response"))

ProfileExtension_delete_greeting_async(c) ==
  Invoke(c, "ProfileExtension.delete_greeting_async", NoArgs,
    Send(CommandEnv(CreateDeleteCommand(ctorTo, ProfileUri(GREETING_ID))),
         "ProfileExtension.process_command_async", "_parse_plain_text_response"))

ProfileExtension_get_persistent_menu_async(c) ==
  Invoke(c, "ProfileExtension.get_persistent_menu_async", NoArgs,
    Send(CommandEnv(CreateGetCommand(ctorTo, ProfileUri(PERSISTENT_MENU_ID))),
         "ProfileExtension.process_command_async", "_parse_document_select_response"))

\* The menus passed: None, a DocumentSelect object, a plain document.
MenuArgs ==
  {[t |-> "none"], DocumentSelect(None, <<>>, None),
   DocumentSelect(<<"Menu">>, <<"a">>, <<"immediate">>), DictRes([text |-> <<"hi">>])}

\* The header/options/scope dict if hasattr(persistent_menu, 'header'), else the argument.
MenuData(persistent_menu) ==
  CASE persistent_menu.t = "documentselect" ->
         DictRes([header |-> persistent_menu.header, options |-> persistent_menu.options,
                  scope |-> persistent_menu.scope])
    [] persistent_menu.t = "none" -> NoneRes
    [] OTHER -> persistent_menu

ProfileExtension_set_persistent_menu_async(c) ==
  \E persistent_menu \in MenuArgs :
    Invoke(c, "ProfileExtension.set_persistent_menu_async", [persistent_menu |-> persistent_menu],
      Send(CommandEnv(CreateSetCommand(ctorTo, ProfileUri(PERSISTENT_MENU_ID),
                                       MenuData(persistent_menu), None)),
           "ProfileExtension.process_command_async", "_parse_document_response"))

ProfileExtension_delete_persistent_menu_async(c) ==
  Invoke(c, "ProfileExtension.delete_persistent_menu_async", NoArgs,
    Send(CommandEnv(CreateDeleteCommand(ctorTo, ProfileUri(PERSISTENT_MENU_ID))),
         "ProfileExtension.process_command_async", "none"))

\* ------------------------------------------------------- SchedulerExtension

DEFAULT_SCHEDULER_DOMAIN == <<"scheduler.msging.net">>

\* self._scheduler_address = Node(POSTMASTER, DEFAULT_SCHEDULER_DOMAIN, None)
SchedulerAddress == <<"postmaster", "@">> \o DEFAULT_SCHEDULER_DOMAIN

\* lime_python Message objects passed as arguments, and None.
NoneMessage ==
  [isNone |-> TRUE, id |-> None, from_n |-> NoneIdentity, to |-> None, content |-> NoneRes]

MessageArgs ==
  {NoneMessage,
   [Message(None, <<"bot@msging.net">>, DictRes([text |-> <<"hi">>]))
      EXCEPT !.from_n = Identity(<<"u", " ">>, <<"d.com">>)],
   Message(<<"m1">>, <<"bot@msging.net">>, StrRes(<<"hi">>))}

\* datetime arguments (as their isoformat()), and None.
WhenArgs == {None, <<"2030-01-01T00:00:00">>}

NoneAttributeError == Raise("AttributeError", <<"'NoneType' object has no attribute">>)

\* The scheduled_data of schedule_message_async.
ScheduledData(when, message, name) ==
  LET inner == DictRes([to |-> Str(message.to), content |-> message.content, type |-> None])
  IN  IF Truthy(name)
      THEN DictRes([when |-> when, message |-> inner, name |-> name])
      ELSE DictRes([when |-> when, message |-> inner])

SchedulerExtension_schedule_message_async(c) ==
  \E when \in WhenArgs, message \in MessageArgs, name \in StrArgs :
    Invoke(c, "SchedulerExtension.schedule_message_async",
           [when |-> when, message |-> message, name |-> name],
      IF when = None \/ message.isNone THEN NoneAttributeError
      ELSE Send(CommandEnv(WithTo(
                  CreateSetCommand(ctorTo, <<"/messages">>,
                                   ScheduledData(when, message, name), None),
                  SchedulerAddress)),
                "process_command_async", "none"))

\* cancel_scheduled_message_async without `command.to = self._scheduler_address`.
CancelScheduledMessage_NoAddress(name) ==
  IF ~Truthy(name) THEN Raise("ValueError", <<"name cannot be null or empty">>)
  ELSE Send(CommandEnv(CreateDeleteCommand(ctorTo, <<"/messages/">> \o name)),
            "process_command_async", "none")

\* cancel_scheduled_message_async(name), up to its await.
CancelScheduledMessage(name) ==
  IF ~Truthy(name) THEN Raise("ValueError", <<"name cannot be null or empty">>)
  ELSE Send(CommandEnv(WithTo(
              CreateDeleteCommand(ctorTo, <<"/messages/">> \o name),
              SchedulerAddress)),
            "process_command_async", "none")

\* cancel_scheduled_message_async keeping the command it builds in a field
\* of the extension instance, which every call in flight then shares.
SchedulerExtension_cancel_scheduled_message_async_Shared(c) ==
  \E name \in StrArgs :
    LET start == CancelScheduledMessage(name)
    IN  /\ pc[c] = "idle"
        /\ op' = [op EXCEPT ![c] = "SchedulerExtension.cancel_scheduled_message_async"]
        /\ args' = [args EXCEPT ![c] = [name |-> name]]
        /\ reply' = [reply EXCEPT ![c] = NoReply]
        /\ IF start.kind = "send"
           THEN /\ pc' = [pc EXCEPT ![c] = "awaiting"]
                /\ sent' = [d \in Callers |->
                              IF d = c \/ pc[d] = "awaiting" THEN <<start.env>> ELSE sent[d]]
                /\ cont' = [cont EXCEPT ![c] = [via |-> start.via, then |-> start.then]]
                /\ result' = [result EXCEPT ![c] = Pending]
           ELSE /\ pc' = [pc EXCEPT ![c] = "done"]
                /\ sent' = [sent EXCEPT ![c] = <<>>]
                /\ cont' = [cont EXCEPT ![c] = NoCont]
                /\ result' = [result EXCEPT ![c] = start]
        /\ UNCHANGED ctorTo

SchedulerExtension_cancel_scheduled_message_async(c) ==
  \E name \in StrArgs :
    Invoke(c, "SchedulerExtension.cancel_scheduled_message_async", [name |-> name],
           CancelScheduledMessage(name))

\* f"/<collection>?$skip={skip}&$take={take}"
PagedUri(collection, skip, take) ==
  <<collection, "?", "$skip", "=">> \o IntStr(skip) \o <<"&", "$take", "=">> \o IntStr(take)

SchedulerExtension_get_scheduled_messages_async(c) ==
  \E skip \in SkipArgs, take \in TakeArgs :
    Invoke(c, "SchedulerExtension.get_scheduled_messages_async", [skip |-> skip, take |-> take],
      Send(CommandEnv(WithTo(CreateGetCommand(ctorTo, PagedUri("/messages", skip, take)),
                             SchedulerAddress)),
           "process_command_async", "_parse_items_response"))

\* --------------------------------------------------------- ThreadsExtension

DEFAULT_THREADS_DOMAIN == <<"threads.msging.net">>

\* self._threads_address = Node(POSTMASTER, DEFAULT_THREADS_DOMAIN, None)
ThreadsAddress == <<"postmaster", "@">> \o DEFAULT_THREADS_DOMAIN

\* Lists of participant identities: None, [] and lists of one and two.
ListArg(isNone, items) == [isNone |-> isNone, items |-> items]

ParticipantsArgs ==
  {ListArg(TRUE, <<>>), ListArg(FALSE, <<>>),
   ListArg(FALSE, <<Identity(<<"u">>, <<"d.com">>)>>),
   ListArg(FALSE, <<Identity(<<"u">>, <<"d.com">>), Identity(<<"u", " ">>, <<"d.com">>)>>)}

ThreadIdError == Raise("ValueError", <<"threadId cannot be null or empty">>)

ThreadsExtension_create_thread_async(c) ==
  \E participants \in ParticipantsArgs :
    Invoke(c, "ThreadsExtension.create_thread_async", [participants |-> participants],
      IF participants.isNone \/ participants.items = <<>>
      THEN Raise("ValueError", <<"participants cannot be null or empty">>)
      ELSE Send(CommandEnv(WithTo(
                  CreateSetCommand(ctorTo, <<"/threads">>,
                    DictRes([participants |->
                      [i \in 1..Len(participants.items) |->
                         IdentityStr(participants.items[i])]]),
                    None),
                  ThreadsAddress)),
                "process_command_async", "_parse_thread_response"))

ThreadsExtension_get_thread_async(c) ==
  \E thread_id \in StrArgs :
    Invoke(c, "ThreadsExtension.get_thread_async", [thread_id |-> thread_id],
      IF ~Truthy(thread_id) THEN ThreadIdError
      ELSE Send(CommandEnv(WithTo(CreateGetCommand(ctorTo, <<"/threads/">> \o thread_id),
                                  ThreadsAddress)),
                "process_command_async", "_parse_thread_response"))

ThreadsExtension_get_threads_async(c) ==
  \E skip \in SkipArgs, take \in TakeArgs :
    Invoke(c, "ThreadsExtension.get_threads_async", [skip |-> skip, take |-> take],
      Send(CommandEnv(WithTo(CreateGetCommand(ctorTo, PagedUri("/threads", skip, take)),
                             ThreadsAddress)),
           "process_command_async", "_parse_threads_collection_response"))

ThreadsExtension_add_participant_async(c) ==
  \E thread_id \in StrArgs, participant \in IdentityArgs :
    Invoke(c, "ThreadsExtension.add_participant_async",
           [thread_id |-> thread_id, participant |-> participant],
      IF ~Truthy(thread_id) THEN ThreadIdError
      ELSE IF ~IdentityTruthy(participant)
      THEN Raise("ValueError", <<"participant cannot be null">>)
      ELSE Send(CommandEnv(WithTo(
                  CreateSetCommand(ctorTo, <<"/threads/">> \o thread_id \o <<"/participants">>,
                                   DictRes([value |-> IdentityStr(participant)]), None),
                  ThreadsAddress)),
                "process_command_async", "none"))

ThreadsExtension_remove_participant_async(c) ==
  \E thread_id \in StrArgs, participant \in IdentityArgs :
    Invoke(c, "ThreadsExtension.remove_participant_async",
           [thread_id |-> thread_id, participant |-> participant],
      IF ~Truthy(thread_id) THEN ThreadIdError
      ELSE IF ~IdentityTruthy(participant)
      THEN Raise("ValueError", <<"participant cannot be null">>)
      ELSE Send(CommandEnv(WithTo(
                  CreateDeleteCommand(ctorTo,
                    <<"/threads/">> \o thread_id \o <<"/participants/">>
                      \o IdentityStr(participant)),
                  ThreadsAddress)),
                "process_command_async", "none"))

ThreadsExtension_delete_thread_async(c) ==
  \E thread_id \in StrArgs :
    Invoke(c, "ThreadsExtension.delete_thread_async", [thread_id |-> thread_id],
      IF ~Truthy(thread_id) THEN ThreadIdError
      ELSE Send(CommandEnv(WithTo(CreateDeleteCommand(ctorTo, <<"/threads/">> \o thread_id),
                                  ThreadsAddress)),
                "process_command_async", "none"))

\* -------------------------------------------------------- HelpDeskExtension

DEFAULT_DESK_DOMAIN == <<"desk.msging.net">>

ID_PREFIX == "fwd"

\* self._desk_node = Node("postmaster", DEFAULT_DESK_DOMAIN, None)
DeskNode == <<"postmaster", "@">> \o DEFAULT_DESK_DOMAIN

\* A forwarding that addresses the desk by the sender as it is written.
ForwardedMessage_RawSender(message) ==
  Message(<<ID_PREFIX, ":">> \o (IF Truthy(message.id) THEN message.id ELSE Uuid4),
          IdentityStr(Identity(IdentityStr(message.from_n), DEFAULT_DESK_DOMAIN)),
          message.content)

\* The forwarded message of forward_message_to_agent_async.
ForwardedMessage(message) ==
  Message(<<ID_PREFIX, ":">> \o (IF Truthy(message.id) THEN message.id ELSE Uuid4),
          IdentityStr(Identity(Quote(IdentityStr(message.from_n)), DEFAULT_DESK_DOMAIN)),
          message.content)

HelpDeskExtension_forward_message_to_agent_async(c) ==
  \E message \in MessageArgs :
    Invoke(c, "HelpDeskExtension.forward_message_to_agent_async", [message |-> message],
      IF message.isNone THEN NoneAttributeError
      ELSE Send(MessageEnv(ForwardedMessage(message)),
                "client.send_message_async", "none"))

HelpDeskExtension_create_ticket_async(c) ==
  \E customer_identity \in IdentityArgs, context \in DocArgs :
    Invoke(c, "HelpDeskExtension.create_ticket_async",
           [customer_identity |-> customer_identity, context |-> context],
      Send(CommandEnv(WithTo(
             CreateSetCommand(ctorTo, <<"/tickets/">> \o Quote(IdentityStr(customer_identity)),
                              context, None),
             DeskNode)),
           "process_command_async", "_parse_ticket_response"))

\* Ticket objects passed as arguments, and None.
TicketArgs ==
  {[isNone |-> TRUE, id |-> None, status |-> None, customer_identity |-> None],
   [isNone |-> FALSE, id |-> None, status |-> None, customer_identity |-> <<"u@d.com">>],
   [isNone |-> FALSE, id |-> <<"1">>, status |-> <<"Open">>, customer_identity |-> <<"u@d.com">>]}

\* ticket.__dict__
TicketDict(ticket) ==
  DictRes([id |-> ticket.id, status |-> ticket.status,
           customer_identity |-> ticket.customer_identity,
           agent_identity |-> None, context |-> None])

HelpDeskExtension_create_ticket_with_data_async(c) ==
  \E ticket \in TicketArgs :
    Invoke(c, "HelpDeskExtension.create_ticket_with_data_async", [ticket |-> ticket],
      IF ticket.isNone THEN NoneAttributeError
      ELSE Send(CommandEnv(WithTo(
                  CreateSetCommand(ctorTo, <<"/tickets">>, TicketDict(ticket), None),
                  DeskNode)),
                "process_command_async", "_parse_ticket_response"))

\* {"id": ticket_id, "status": "ClosedClient"}
CloseTicketData(ticket_id) == DictRes([id |-> ticket_id, status |-> <<"ClosedClient">>])

HelpDeskExtension_close_ticket_as_user(c) ==
  \E ticket_id \in StrArgs :
    Invoke(c, "HelpDeskExtension.close_ticket_as_user", [ticket_id |-> ticket_id],
      Send(CommandEnv(WithTo(
             CreateSetCommand(ctorTo, <<"/tickets/change-status">>,
                              CloseTicketData(ticket_id), None),
             DeskNode)),
           "process_command_async", "none"))

HelpDeskExtension_close_ticket_as_user_without_redirect(c) ==
  \E ticket_id \in StrArgs :
    Invoke(c, "HelpDeskExtension.close_ticket_as_user_without_redirect",
           [ticket_id |-> ticket_id],
      Send(CommandEnv(WithTo(
             CreateSetCommand(ctorTo, <<"/tickets/change-status-without-redirect">>,
                              CloseTicketData(ticket_id), None),
             DeskNode)),
           "process_command_async", "none"))

\* f"/tickets?$filter={quote(<filter>, safe='')}": the filter, quoted.
TicketFilterUri(customer_identity, statusFilter) ==
  <<"/tickets", "?", "$filter", "=", "customerIdentity%20eq%20%27">>
    \o Quote(IdentityStr(customer_identity)) \o <<"%27%20and%20", statusFilter>>

HelpDeskExtension_get_user_open_tickets_async(c) ==
  \E customer_identity \in IdentityArgs :
    Invoke(c, "HelpDeskExtension.get_user_open_tickets_async",
           [customer_identity |-> customer_identity],
      Send(CommandEnv(WithTo(
             CreateGetCommand(ctorTo,
               TicketFilterUri(customer_identity, "status%20eq%20%27Open%27")),
             DeskNode)),
           "process_command_async", "_parse_ticket_collection_response"))

HelpDeskExtension_get_customer_active_ticket_async(c) ==
  \E customer_identity \in IdentityArgs :
    Invoke(c, "HelpDeskExtension.get_customer_active_ticket_async",
           [customer_identity |-> customer_identity],
      Send(CommandEnv(WithTo(
             CreateGetCommand(ctorTo,
               TicketFilterUri(customer_identity,
                 "%28status%20eq%20%27Open%27%20or%20status%20eq%20%27Waiting%27%20or%20status%20eq%20%27Assigned%27%29")),
             DeskNode)),
           "process_command_async", "_parse_ticket_collection_response"))

\* ---------------------------------------------------------- TunnelExtension

DEFAULT_TUNNEL_DOMAIN == <<"tunnel.msging.net">>

\* self._tunnel_address = Node(POSTMASTER, DEFAULT_TUNNEL_DOMAIN, None)
TunnelAddress == <<"postmaster", "@">> \o DEFAULT_TUNNEL_DOMAIN

DestinationError == Raise("ValueError", <<"destinationIdentity cannot be null">>)

\* str(x.from_n) if x.from_n else None
FromStr(from_n) == IF IdentityTruthy(from_n) THEN IdentityStr(from_n) ELSE None

\* The identities a message is forwarded or delegated to.
TargetArgs == {NoneIdentity, Identity(<<"u">>, <<"d.com">>)}

TunnelExtension_forward_message_async(c) ==
  \E message \in MessageArgs, destination_identity \in TargetArgs :
    Invoke(c, "TunnelExtension.forward_message_async",
           [message |-> message, destination_identity |-> destination_identity],
      IF message.isNone THEN Raise("ValueError", <<"message cannot be null">>)
      ELSE IF ~IdentityTruthy(destination_identity) THEN DestinationError
      ELSE Send(CommandEnv(WithTo(
                  CreateSetCommand(ctorTo, <<"/messages">>,
                    DictRes([message |->
                               DictRes([from |-> FromStr(message.from_n),
                                        to |-> Str(message.to),
                                        content |-> message.content,
                                        type |-> None,
                                        id |-> message.id]),
                             destinationIdentity |-> IdentityStr(destination_identity)]),
                    None),
                  TunnelAddress)),
                "process_command_async", "none"))

\* lime_python Notification objects passed as arguments, and None.
NotificationArgs ==
  {[isNone |-> TRUE, id |-> None, from_n |-> NoneIdentity, to |-> None, event |-> None],
   [isNone |-> FALSE, id |-> <<"n1">>, from_n |-> Identity(<<"u">>, <<"d.com">>),
    to |-> <<"bot@msging.net">>, event |-> <<"received">>]}

TunnelExtension_forward_notification_async(c) ==
  \E notification \in NotificationArgs, destination_identity \in TargetArgs :
    Invoke(c, "TunnelExtension.forward_notification_async",
           [notification |-> notification, destination_identity |-> destination_identity],
      IF notification.isNone THEN Raise("ValueError", <<"notification cannot be null">>)
      ELSE IF ~IdentityTruthy(destination_identity) THEN DestinationError
      ELSE Send(CommandEnv(WithTo(
                  CreateSetCommand(ctorTo, <<"/notifications">>,
                    DictRes([notification |->
                               DictRes([from |-> FromStr(notification.from_n),
                                        to |-> Str(notification.to),
                                        event |-> notification.event,
                                        id |-> notification.id]),
                             destinationIdentity |-> IdentityStr(destination_identity)]),
                    None),
                  TunnelAddress)),
                "process_command_async", "none"))

\* The tunnel_data of create_tunnel_async.
TunnelData(source_identity, destination_identity, tunnel_name) ==
  IF Truthy(tunnel_name)
  THEN DictRes([sourceIdentity |-> IdentityStr(source_identity),
                destinationIdentity |-> IdentityStr(destination_identity),
                name |-> tunnel_name])
  ELSE DictRes([sourceIdentity |-> IdentityStr(source_identity),
                destinationIdentity |-> IdentityStr(destination_identity)])

TunnelExtension_create_tunnel_async(c) ==
  \E source_identity \in TargetArgs, destination_identity \in TargetArgs,
     tunnel_name \in StrArgs :
    Invoke(c, "TunnelExtension.create_tunnel_async",
           [source_identity |-> source_identity,
            destination_identity |-> destination_identity, tunnel_name |-> tunnel_name],
      IF ~IdentityTruthy(source_identity)
      THEN Raise("ValueError", <<"sourceIdentity cannot be null">>)
      ELSE IF ~IdentityTruthy(destination_identity) THEN DestinationError
      ELSE Send(CommandEnv(WithTo(
                  CreateSetCommand(ctorTo, <<"/tunnels">>,
                    TunnelData(source_identity, destination_identity, tunnel_name), None),
                  TunnelAddress)),
                "process_command_async", "resource_or_empty"))

TunnelIdError == Raise("ValueError", <<"tunnelId cannot be null or empty">>)

TunnelExtension_get_tunnel_async(c) ==
  \E tunnel_id \in StrArgs :
    Invoke(c, "TunnelExtension.get_tunnel_async", [tunnel_id |-> tunnel_id],
      IF ~Truthy(tunnel_id) THEN TunnelIdError
      ELSE Send(CommandEnv(WithTo(CreateGetCommand(ctorTo, <<"/tunnels/">> \o tunnel_id),
                                  TunnelAddress)),
                "process_command_async", "resource_or_empty"))

TunnelExtension_delete_tunnel_async(c) ==
  \E tunnel_id \in StrArgs :
    Invoke(c, "TunnelExtension.delete_tunnel_async", [tunnel_id |-> tunnel_id],
      IF ~Truthy(tunnel_id) THEN TunnelIdError
      ELSE Send(CommandEnv(WithTo(CreateDeleteCommand(ctorTo, <<"/tunnels/">> \o tunnel_id),
                                  TunnelAddress)),
                "process_command_async", "none"))

TunnelExtension_get_tunnels_async(c) ==
  \E skip \in SkipArgs, take \in TakeArgs :
    Invoke(c, "TunnelExtension.get_tunnels_async", [skip |-> skip, take |-> take],
      Send(CommandEnv(WithTo(CreateGetCommand(ctorTo, PagedUri("/tunnels", skip, take)),
                             TunnelAddress)),
           "process_command_async", "_parse_items_response"))

\* -------------------------------------------------------- ContactsExtension

\* contacts/uri_templates.py and contacts/content_types.py
CONTACTS == <<"/contacts">>

CONTACT == <<"/contacts/", "{0}">>

CONTACT_TYPE == <<"application/vnd.lime.contact+json">>

\* super().__init__(client, 'postmaster@crm.msging.net')
ContactsTo == <<"postmaster", "@", "crm.msging.net">>

ContactsExtension_get_async(c) ==
  \E identity \in StrArgs :
    Invoke(c, "ContactsExtension.get_async", [identity |-> identity],
      Send(CommandEnv(CreateGetCommand(ContactsTo,
             BuildResourceQuery(BuildUri(CONTACT, identity), <<>>))),
           "process_command_async", "command"))

ContactsExtension_get_contacts_async(c) ==
  \E skip \in SkipArgs, take \in TakeArgs :
    Invoke(c, "ContactsExtension.get_contacts_async", [skip |-> skip, take |-> take],
      Send(CommandEnv(CreateGetCommand(ContactsTo,
             BuildResourceQuery(CONTACTS, << <<"$skip", IntParam(skip)>>,
                                             <<"$take", IntParam(take)>> >>))),
           "process_command_async", "command"))

ContactsExtension_set_async(c) ==
  \E identity \in StrArgs, contact \in DocArgs :
    Invoke(c, "ContactsExtension.set_async", [identity |-> identity, contact |-> contact],
      Send(CommandEnv(CreateSetCommand(ContactsTo,
             BuildResourceQuery(BuildUri(CONTACT, identity), <<>>), contact, CONTACT_TYPE)),
           "process_command_async", "command"))

ContactsExtension_merge_async(c) ==
  \E identity \in StrArgs, contact \in DocArgs :
    Invoke(c, "ContactsExtension.merge_async", [identity |-> identity, contact |-> contact],
      Send(CommandEnv(CreateMergeCommand(ContactsTo,
             BuildResourceQuery(BuildUri(CONTACT, identity), <<>>), contact, CONTACT_TYPE)),
           "process_command_async", "command"))

ContactsExtension_delete_async(c) ==
  \E identity \in StrArgs :
    Invoke(c, "ContactsExtension.delete_async", [identity |-> identity],
      Send(CommandEnv(CreateDeleteCommand(ContactsTo,
             BuildResourceQuery(BuildUri(CONTACT, identity), <<>>))),
           "process_command_async", "command"))

\* ------------------------------------------------- ContactsJourneyExtension

CONTACTS_JOURNEY_URI == <<"/contacts-journey">>

DEFAULT_ANALYTICS_DOMAIN == <<"analytics.msging.net">>

\* self._analytics_address = Node(POSTMASTER, DEFAULT_ANALYTICS_DOMAIN, None)
AnalyticsAddress == <<"postmaster", "@">> \o DEFAULT_ANALYTICS_DOMAIN

\* datetime.now().isoformat()
Now == <<"now">>

\* The journey_data of add_async.
JourneyData(state_id, state_name) ==
  DictRes([currentStateId |-> state_id, currentStateName |-> state_name,
           previousStateId |-> None, previousStateName |-> None,
           contactIdentity |-> None, storageDate |-> Now])

\* The state names tried.
StateNameArgs == {None, <<" ">>, <<"s">>}

ContactsJourneyExtension_add_async(c) ==
  \E state_id \in StrArgs, state_name \in StateNameArgs, fire_and_forget \in BOOLEAN :
    Invoke(c, "ContactsJourneyExtension.add_async",
           [state_id |-> state_id, state_name |-> state_name,
            fire_and_forget |-> fire_and_forget],
      IF ~Truthy(state_id) \/ IsSpace(state_id)
      THEN Raise("ValueError", <<"stateId cannot be null or empty">>)
      ELSE IF ~Truthy(state_name) \/ IsSpace(state_name)
      THEN Raise("ValueError", <<"stateName cannot be null or empty">>)
      ELSE IF fire_and_forget
      THEN Send(CommandEnv(WithTo(
                  Command("observe", CONTACTS_JOURNEY_URI, None,
                          JourneyData(state_id, state_name)),
                  AnalyticsAddress)),
                "client.send_command_async", "none")
      ELSE Send(CommandEnv(WithTo(
                  Command("set", CONTACTS_JOURNEY_URI, None,
                          JourneyData(state_id, state_name)),
                  AnalyticsAddress)),
                "process_command_async", "none"))

\* -------------------------------------------------------- ResourceExtension

\* resource/uri_templates.py and resource/content_types.py
RESOURCES == <<"/resources">>

RESOURCE == <<"/resources/", "{0}">>

RESOURCE_TYPE == <<"application/json">>

\* def __init__(self, client, to: str = "postmaster@msging.net")
ResourceTo == IF ctorTo = None THEN <<"postmaster", "@", "msging.net">> ELSE ctorTo

ResourceIdError == Raise("ValueError", <<"The 'id' parameter is required">>)

ResourceExtension_get_async(c) ==
  \E id \in StrArgs :
    Invoke(c, "ResourceExtension.get_async", [id |-> id],
      IF ~Truthy(id) THEN ResourceIdError
      ELSE Send(CommandEnv(CreateGetCommand(ResourceTo, BuildUri(RESOURCE, id))),
                "process_command_async", "command"))

ResourceExtension_set_async(c) ==
  \E id \in StrArgs, resource \in DocArgs :
    Invoke(c, "ResourceExtension.set_async", [id |-> id, resource |-> resource],
      IF ~Truthy(id) THEN ResourceIdError
      ELSE IF resource = NoneRes
      THEN Raise("ValueError", <<"The 'resource' parameter is required">>)
      ELSE Send(CommandEnv(CreateSetCommand(ResourceTo, BuildUri(RESOURCE, id),
                                            resource, RESOURCE_TYPE)),
                "process_command_async", "command"))

ResourceExtension_delete_async(c) ==
  \E id \in StrArgs :
    Invoke(c, "ResourceExtension.delete_async", [id |-> id],
      IF ~Truthy(id) THEN ResourceIdError
      ELSE Send(CommandEnv(CreateDeleteCommand(ResourceTo, BuildUri(RESOURCE, id))),
                "process_command_async", "command"))

ResourceExtension_get_all_async(c) ==
  \E take \in TakeArgs, skip \in SkipArgs :
    Invoke(c, "ResourceExtension.get_all_async", [take |-> take, skip |-> skip],
      Send(CommandEnv(CreateGetCommand(ResourceTo,
             BuildResourceQuery(RESOURCES, << <<"$take", IntParam(take)>>,
                                              <<"$skip", IntParam(skip)>> >>))),
           "process_command_async", "command"))

\* ---------------------------------------------------- EventTrackerExtension

\* A template module whose collection template is left empty.
EVENTS_Empty == <<>>

\* event_tracker/uri_templates.py
EVENTS == <<"/events">>

EVENTS_CATEGORY == <<"/events/", "{0}">>

\* event_tracker/content_types.py
EVENT_TYPE == <<"application/vnd.iris.eventTrack+json">>

\* POSTMASTER_ANALYTICS = 'postmaster@analytics.msging.net'
POSTMASTER_ANALYTICS == <<"postmaster", "@", "analytics.msging.net">>

CategoryError == Raise("ValueError", <<"The category is required">>)

\* The actions and the identities tracked.
ActionArgs == {None, <<>>, <<"click">>}

TrackIdentityArgs == {None, <<"u@d.com">>}

\* The track_resource of track_async.
TrackResource(category, action, identity) ==
  IF identity # None
  THEN DictRes([category |-> category, action |-> action, extras |-> None,
                identity |-> identity])
  ELSE DictRes([category |-> category, action |-> action, extras |-> None])

EventTrackerExtension_track_async(c) ==
  \E category \in StrArgs, action \in ActionArgs, identity \in TrackIdentityArgs :
    Invoke(c, "EventTrackerExtension.track_async",
           [category |-> category, action |-> action, identity |-> identity],
      IF ~Truthy(category) THEN CategoryError
      ELSE IF ~Truthy(action) THEN Raise("ValueError", <<"The action is required">>)
      ELSE Send(CommandEnv(CreateSetCommand(POSTMASTER_ANALYTICS, EVENTS,
                             TrackResource(category, action, identity), EVENT_TYPE)),
                "process_command_async", "command"))

EventTrackerExtension_get_categories_async(c) ==
  \E skip \in SkipArgs, take \in TakeArgs :
    Invoke(c, "EventTrackerExtension.get_categories_async", [skip |-> skip, take |-> take],
      Send(CommandEnv(CreateGetCommand(POSTMASTER_ANALYTICS,
             BuildResourceQuery(EVENTS, << <<"$skip", IntParam(skip)>>,
                                           <<"$take", IntParam(take)>> >>))),
           "process_command_async", "command"))

\* The start_date / end_date filters.
DateArgs == {None, <<"2030-01-01">>}

EventTrackerExtension_get_actions_async(c) ==
  \E category \in StrArgs, skip \in SkipArgs, take \in TakeArgs, start_date \in DateArgs :
    Invoke(c, "EventTrackerExtension.get_actions_async",
           [category |-> category, skip |-> skip, take |-> take,
            start_date |-> start_date, end_date |-> None],
      IF ~Truthy(category) THEN CategoryError
      ELSE Send(CommandEnv(CreateGetCommand(POSTMASTER_ANALYTICS,
                  BuildResourceQuery(BuildUri(EVENTS_CATEGORY, category),
                    << <<"$skip", IntParam(skip)>>, <<"$take", IntParam(take)>>,
                       <<"startDate", start_date>>, <<"endDate", None>> >>))),
                "process_command_async", "command"))

\* --------------------------------------------------------- BuilderExtension

DEFAULT_BUILDER_DOMAIN == <<"builder.msging.net">>

\* self._builder_address = Node(POSTMASTER, DEFAULT_BUILDER_DOMAIN, None)
BuilderAddress == <<"postmaster", "@">> \o DEFAULT_BUILDER_DOMAIN

FlowIdError == Raise("ValueError", <<"flowId cannot be null or empty">>)

BuilderExtension_get_flow_async(c) ==
  \E flow_id \in StrArgs :
    Invoke(c, "BuilderExtension.get_flow_async", [flow_id |-> flow_id],
      IF ~Truthy(flow_id) THEN FlowIdError
      ELSE Send(CommandEnv(WithTo(CreateGetCommand(ctorTo, <<"/flows/">> \o flow_id),
                                  BuilderAddress)),
                "process_command_async", "resource_or_empty"))

BuilderExtension_set_flow_async(c) ==
  \E flow_data \in DocArgs :
    Invoke(c, "BuilderExtension.set_flow_async", [flow_data |-> flow_data],
      IF ~ResTruthy(flow_data) THEN Raise("ValueError", <<"flowData cannot be null">>)
      ELSE Send(CommandEnv(WithTo(CreateSetCommand(ctorTo, <<"/flows">>, flow_data, None),
                                  BuilderAddress)),
                "process_command_async", "none"))

BuilderExtension_delete_flow_async(c) ==
  \E flow_id \in StrArgs :
    Invoke(c, "BuilderExtension.delete_flow_async", [flow_id |-> flow_id],
      IF ~Truthy(flow_id) THEN FlowIdError
      ELSE Send(CommandEnv(WithTo(CreateDeleteCommand(ctorTo, <<"/flows/">> \o flow_id),
                                  BuilderAddress)),
                "process_command_async", "none"))

BuilderExtension_get_flows_async(c) ==
  \E skip \in SkipArgs, take \in TakeArgs :
    Invoke(c, "BuilderExtension.get_flows_async", [skip |-> skip, take |-> take],
      Send(CommandEnv(WithTo(CreateGetCommand(ctorTo, PagedUri("/flows", skip, take)),
                             BuilderAddress)),
           "process_command_async", "_parse_items_response"))

\* ------------------------------------------------------ DelegationExtension

DEFAULT_DELEGATION_DOMAIN == <<"delegation.msging.net">>

\* self._delegation_address = Node(POSTMASTER, DEFAULT_DELEGATION_DOMAIN, None)
DelegationAddress == <<"postmaster", "@">> \o DEFAULT_DELEGATION_DOMAIN

DelegationExtension_delegate_message_async(c) ==
  \E message \in MessageArgs, target_identity \in TargetArgs :
    Invoke(c, "DelegationExtension.delegate_message_async",
           [message |-> message, target_identity |-> target_identity],
      IF message.isNone THEN Raise("ValueError", <<"message cannot be null">>)
      ELSE IF ~IdentityTruthy(target_identity)
      THEN Raise("ValueError", <<"targetIdentity cannot be null">>)
      ELSE Send(CommandEnv(WithTo(
                  CreateSetCommand(ctorTo, <<"/delegations">>,
                    DictRes([message |->
                               DictRes([from |-> FromStr(message.from_n),
                                        to |-> Str(message.to),
                                        content |-> message.content,
                                        type |-> None]),
                             targetIdentity |-> IdentityStr(target_identity)]),
                    None),
                  DelegationAddress)),
                "process_command_async", "none"))

DelegationExtension_get_delegations_async(c) ==
  \E skip \in SkipArgs, take \in TakeArgs :
    Invoke(c, "DelegationExtension.get_delegations_async", [skip |-> skip, take |-> take],
      Send(CommandEnv(WithTo(CreateGetCommand(ctorTo, PagedUri("/delegations", skip, take)),
                             DelegationAddress)),
           "process_command_async", "_parse_items_response"))

\* ------------------------------------------------------- DirectoryExtension

\* URI_FORMAT = "lime://{0}/accounts/{1}"
DirectoryUri(identity) ==
  <<"lime://">> \o identity.domain \o <<"/accounts/">> \o Quote(identity.name)

\* The directory addressed at one node, whatever the identity asked for.
DirectoryTo_Fixed(identity) == <<"postmaster", "@", "msging.net">>

\* Node.parse(POSTMASTER_FORMAT.format(identity.domain))
DirectoryTo(identity) == <<"postmaster", "@">> \o identity.domain

DirectoryExtension_get_directory_account_async(c) ==
  \E identity \in DirectoryIdentityArgs :
    Invoke(c, "DirectoryExtension.get_directory_account_async", [identity |-> identity],
      IF ~IdentityTruthy(identity) THEN Raise("ValueError", <<"identity cannot be null">>)
      ELSE IF ~Truthy(identity.domain) \/ IsSpace(identity.domain)
      THEN Raise("ValueError", <<"Invalid identity domain">>)
      ELSE Send(CommandEnv(WithTo(CreateGetCommand(ctorTo, DirectoryUri(identity)),
                                  DirectoryTo(identity))),
                "process_command_async", "_parse_account_response"))

\* --------------------------------------------------------------------- Next

\* One caller: the calls follow one another.
SequentialCallers == {1}

Next ==
  \E c \in SequentialCallers :
     \/ BucketExtension_get_async(c)
     \/ BucketExtension_get_ids_async(c)
     \/ BucketExtension_set_async(c)
     \/ BucketExtension_delete_async(c)
     \/ BucketExtension_get_text_async(c)
     \/ BucketExtension_set_text_async(c)
     \/ BroadcastExtension_create_distribution_list_async(c)
     \/ BroadcastExtension_get_all_distribution_lists_async(c)
     \/ BroadcastExtension_delete_distribution_list_async(c)
     \/ BroadcastExtension_add_recipient_async(c)
     \/ BroadcastExtension_delete_recipient_async(c)
     \/ BroadcastExtension_has_recipient_async(c)
     \/ BroadcastExtension_get_recipients_async(c)
     \/ BroadcastExtension_send_message_async(c)
     \/ ProfileExtension_get_get_started_async(c)
     \/ ProfileExtension_set_get_started_async(c)
     \/ ProfileExtension_delete_get_started_async(c)
     \/ ProfileExtension_get_greeting_async(c)
     \/ ProfileExtension_set_greeting_async(c)
     \/ ProfileExtension_delete_greeting_async(c)
     \/ ProfileExtension_get_persistent_menu_async(c)
     \/ ProfileExtension_set_persistent_menu_async(c)
     \/ ProfileExtension_delete_persistent_menu_async(c)
     \/ SchedulerExtension_schedule_message_async(c)
     \/ SchedulerExtension_cancel_scheduled_message_async(c)
     \/ SchedulerExtension_get_scheduled_messages_async(c)
     \/ ThreadsExtension_create_thread_async(c)
     \/ ThreadsExtension_get_thread_async(c)
     \/ ThreadsExtension_get_threads_async(c)
     \/ ThreadsExtension_add_participant_async(c)
     \/ ThreadsExtension_remove_participant_async(c)
     \/ ThreadsExtension_delete_thread_async(c)
     \/ HelpDeskExtension_forward_message_to_agent_async(c)
     \/ HelpDeskExtension_create_ticket_async(c)
     \/ HelpDeskExtension_create_ticket_with_data_async(c)
     \/ HelpDeskExtension_close_ticket_as_user(c)
     \/ HelpDeskExtension_close_ticket_as_user_without_redirect(c)
     \/ HelpDeskExtension_get_user_open_tickets_async(c)
     \/ HelpDeskExtension_get_customer_active_ticket_async(c)
     \/ TunnelExtension_forward_message_async(c)
     \/ TunnelExtension_forward_notification_async(c)
     \/ TunnelExtension_create_tunnel_async(c)
     \/ TunnelExtension_get_tunnel_async(c)
     \/ TunnelExtension_delete_tunnel_async(c)
     \/ TunnelExtension_get_tunnels_async(c)
     \/ ContactsExtension_get_async(c)
     \/ ContactsExtension_get_contacts_async(c)
     \/ ContactsExtension_set_async(c)
     \/ ContactsExtension_merge_async(c)
     \/ ContactsExtension_delete_async(c)
     \/ ContactsJourneyExtension_add_async(c)
     \/ ResourceExtension_get_async(c)
     \/ ResourceExtension_set_async(c)
     \/ ResourceExtension_delete_async(c)
     \/ ResourceExtension_get_all_async(c)
     \/ EventTrackerExtension_track_async(c)
     \/ EventTrackerExtension_get_categories_async(c)
     \/ EventTrackerExtension_get_actions_async(c)
     \/ BuilderExtension_get_flow_async(c)
     \/ BuilderExtension_set_flow_async(c)
     \/ BuilderExtension_delete_flow_async(c)
     \/ BuilderExtension_get_flows_async(c)
     \/ DelegationExtension_delegate_message_async(c)
     \/ DelegationExtension_get_delegations_async(c)
     \/ DirectoryExtension_get_directory_account_async(c)
     \/ ClientRespondSuccess(c)
     \/ ClientRespondFailure(c)
     \/ ClientDeliverMessage(c)
     \/ ClientTransportFailure(c)
     \/ Resume(c)
     \/ ReturnToCaller(c)

Spec == Init /\ [][Next]_vars

\* ------------------------------------------------------------ the outcomes

\* The call of caller c has ended with ValueError.
RaisedValueError(c) ==
  pc[c] = "done" /\ result[c].kind = "raise" /\ result[c].error = "ValueError"

\* The client answered caller c with a failure response / failed to transport.
FailureReply(c) == reply[c].kind = "response" /\ reply[c].status = "failure"

TransportReply(c) == reply[c].kind = "transport"

\* The commands of caller c that reached the client with one of `methods`.
SentWith(c, methods) ==
  {i \in 1..Len(sent[c]) :
     sent[c][i].kind = "command" /\ sent[c][i].command.method \in methods}

\* ---------------------------------------------- identifiers and names (C1)

\* The operations that require an identifier or a name, by the argument
\* that carries it.
IdOps ==
  {"BucketExtension.get_async", "BucketExtension.set_async",
   "BucketExtension.delete_async", "BucketExtension.get_text_async",
   "BucketExtension.set_text_async", "ResourceExtension.get_async",
   "ResourceExtension.set_async", "ResourceExtension.delete_async"}

ListNameOps ==
  {"BroadcastExtension.create_distribution_list_async",
   "BroadcastExtension.delete_distribution_list_async",
   "BroadcastExtension.get_recipients_async"}

NameOps == {"SchedulerExtension.cancel_scheduled_message_async"}

ThreadIdOps ==
  {"ThreadsExtension.get_thread_async", "ThreadsExtension.delete_thread_async"}

TicketIdOps ==
  {"HelpDeskExtension.close_ticket_as_user",
   "HelpDeskExtension.close_ticket_as_user_without_redirect"}

TunnelIdOps == {"TunnelExtension.get_tunnel_async", "TunnelExtension.delete_tunnel_async"}

ContactIdentityOps ==
  {"ContactsExtension.get_async", "ContactsExtension.set_async",
   "ContactsExtension.merge_async", "ContactsExtension.delete_async"}

CategoryOps == {"EventTrackerExtension.get_actions_async"}

FlowIdOps == {"BuilderExtension.get_flow_async", "BuilderExtension.delete_flow_async"}

IdentifierOps ==
  IdOps \cup ListNameOps \cup NameOps \cup ThreadIdOps \cup TicketIdOps
    \cup TunnelIdOps \cup ContactIdentityOps \cup CategoryOps \cup FlowIdOps

\* The identifier or name caller c's call was invoked with.
IdentifierOf(c) ==
  CASE op[c] \in IdOps -> args[c].id
    [] op[c] \in ListNameOps -> args[c].list_name
    [] op[c] \in NameOps -> args[c].name
    [] op[c] \in ThreadIdOps -> args[c].thread_id
    [] op[c] \in TicketIdOps -> args[c].ticket_id
    [] op[c] \in TunnelIdOps -> args[c].tunnel_id
    [] op[c] \in ContactIdentityOps -> args[c].identity
    [] op[c] \in CategoryOps -> args[c].category
    [] op[c] \in FlowIdOps -> args[c].flow_id

\* null, empty or whitespace-only.
Blank(s) == s = None \/ s = <<>> \/ IsSpace(s)

\* C1: an operation that requires an identifier or a name, invoked with a
\* null, empty or whitespace-only one, raises ValueError, and no command or
\* message reaches the client.
C1_BlankIdentifierRejected ==
  \A c \in Callers :
    (op[c] \in IdentifierOps /\ Blank(IdentifierOf(c)))
      => (RaisedValueError(c) /\ sent[c] = <<>>)

\* ------------------------------------------------- set / merge payloads (C2)

\* C2: every SET or MERGE command that reaches the client carries a
\* non-null resource: a set or merge operation invoked with a null payload
\* raises before it dispatches.
C2_SetMergeCarryPayload ==
  \A c \in Callers :
    \A i \in SentWith(c, {"set", "merge"}) : sent[c][i].command.resource # NoneRes

\* ------------------------------------------------ failure responses (C3-C6)

\* The failure response BLiP gives for a resource that does not exist.
ResourceNotFound == Response("failure", NoneRes, <<"Resource", "not found">>)

\* The error the base raises for a failure response with that reason.
CommandFailure(reason) == Raise("CommandFailure", reason)

\* The generic get operations: they await the base dispatch and reshape.
GenericGetOps ==
  {"BucketExtension.get_async", "ThreadsExtension.get_thread_async",
   "ResourceExtension.get_async", "ContactsExtension.get_async",
   "TunnelExtension.get_tunnel_async", "BuilderExtension.get_flow_async"}

\* C3: answered with the failure "Resource not found", a generic get
\* operation ends with the error, and has_recipient_async returns False.
C3_NotFoundRaisesButHasRecipientFalse ==
  \A c \in Callers :
    (pc[c] = "done" /\ reply[c] = ResourceNotFound) =>
      /\ op[c] \in GenericGetOps => result[c] = CommandFailure(reply[c].reason)
      /\ op[c] = "BroadcastExtension.has_recipient_async"
           => result[c] = Return(BoolVal(FALSE))

\* has_recipient_async has returned False for "Resource not found".
C3_HasRecipientNotFound ==
  \E c \in Callers :
    /\ pc[c] = "done" /\ reply[c] = ResourceNotFound
    /\ op[c] = "BroadcastExtension.has_recipient_async"
    /\ result[c] = Return(BoolVal(FALSE))

\* C4: when the client fails to transport the envelope, the operation ends
\* with that error, unchanged: no operation returns normally.
C4_TransportFailurePropagates ==
  \A c \in Callers :
    (pc[c] = "done" /\ TransportReply(c))
      => result[c] = Raise("TransportError", reply[c].message)

\* The profile get operations.
ProfileGetOps ==
  {"ProfileExtension.get_get_started_async", "ProfileExtension.get_greeting_async",
   "ProfileExtension.get_persistent_menu_async"}

\* C5: apart from has_recipient_async and the profile get operations, an
\* operation answered with a failure response ends with an error.
C5_FailureResponseRaises ==
  \A c \in Callers :
    (/\ pc[c] = "done" /\ FailureReply(c)
     /\ op[c] \notin ProfileGetOps \cup {"BroadcastExtension.has_recipient_async"})
      => result[c].kind = "raise"

\* The reason of the failure says that the resource was not found.
NotFoundReply(c) == FailureReply(c) /\ InLower("not found", reply[c].reason)

\* C6: a profile get operation answered with a "not found" failure returns
\* None.
C6_ProfileGetNotFoundReturnsNone ==
  \A c \in Callers :
    (pc[c] = "done" /\ op[c] \in ProfileGetOps /\ NotFoundReply(c))
      => result[c] = Return(NoneVal)

\* get_greeting_async has returned None for a "not found" failure.
C6_GreetingNotFound ==
  \E c \in Callers :
    /\ pc[c] = "done" /\ op[c] = "ProfileExtension.get_greeting_async"
    /\ NotFoundReply(c) /\ result[c] = Return(NoneVal)

\* ------------------------------------------------------ one round trip (C8)

\* The call of caller c was answered with a failure response or failed in
\* transport.
Failed(c) == FailureReply(c) \/ TransportReply(c)

\* C8: an invocation hands at most one command or message to the client,
\* and when the dispatch has failed nothing is sent again: the one envelope
\* sent before the failure is all the client has got.
C8_SingleRoundTrip ==
  \A c \in Callers :
    /\ Len(sent[c]) <= 1
    /\ (pc[c] = "done" /\ Failed(c)) => Len(sent[c]) = 1

\* get_text_async, built on get_async, has failed after its one dispatch.
C8_GetTextFailedOnce ==
  \E c \in Callers :
    /\ pc[c] = "done" /\ op[c] = "BucketExtension.get_text_async"
    /\ Failed(c) /\ result[c].kind = "raise" /\ Len(sent[c]) = 1

\* ----------------------------------------------------------- collections (C9)

CollectionOps ==
  {"BroadcastExtension.get_all_distribution_lists_async",
   "BroadcastExtension.get_recipients_async",
   "ThreadsExtension.get_threads_async",
   "BuilderExtension.get_flows_async",
   "DelegationExtension.get_delegations_async",
   "SchedulerExtension.get_scheduled_messages_async",
   "TunnelExtension.get_tunnels_async"}

\* The call of caller c was answered with success and {"items": [...], "total": N}.
ItemsAndTotalReply(c) ==
  /\ reply[c].kind = "response" /\ reply[c].status = "success"
  /\ IsDict(reply[c].resource)
  /\ {"items", "total"} \subseteq DOMAIN reply[c].resource.d

\* C9: answered with {"items": [...], "total": N}, a collection-returning
\* operation returns the items of the response, each at its place, and so
\* exactly N items when N counts the items of the response.
C9_CollectionInResponseOrder ==
  \A c \in Callers :
    (pc[c] = "done" /\ op[c] \in CollectionOps /\ ItemsAndTotalReply(c)) =>
      LET items == reply[c].resource.d.items
          N == reply[c].resource.d.total
      IN  /\ result[c].kind = "return"
          /\ Len(result[c].value.items) = Len(items)
          /\ N = Len(items) => Len(result[c].value.items) = N
          /\ \A i \in 1..Len(items) :
               IF op[c] = "ThreadsExtension.get_threads_async"
               THEN result[c].value.items[i].id = Get(items[i], "id", None)
               ELSE result[c].value.items[i] = items[i]

\* get_flows_async has returned the two different items of a response.
C9_TwoFlowsReturned ==
  \E c \in Callers :
    /\ pc[c] = "done" /\ op[c] = "BuilderExtension.get_flows_async"
    /\ ItemsAndTotalReply(c)
    /\ reply[c].resource.d.total = 2
    /\ Len(reply[c].resource.d.items) = 2
    /\ reply[c].resource.d.items[1] # reply[c].resource.d.items[2]
    /\ result[c].kind = "return"
    /\ result[c].value.items = reply[c].resource.d.items

\* ------------------------------------------------- schedule, then cancel (C7)

\* The caller whose schedule_message_async has returned cancels the message
\* by the name it scheduled it with.
ThenCancelByName(c) ==
  /\ pc[c] = "done"
  /\ op[c] = "SchedulerExtension.schedule_message_async"
  /\ result[c].kind = "return"
  /\ Call(c, "SchedulerExtension.cancel_scheduled_message_async",
          [name |-> args[c].name], CancelScheduledMessage(args[c].name), sent[c])

NextSchedule ==
  \E c \in SequentialCallers :
     \/ SchedulerExtension_schedule_message_async(c)
     \/ ThenCancelByName(c)
     \/ ClientRespondSuccess(c)
     \/ ClientRespondFailure(c)
     \/ ClientTransportFailure(c)
     \/ Resume(c)
     \/ ReturnToCaller(c)

SpecSchedule == Init /\ [][NextSchedule]_vars

\* The i-th envelope of caller c is a command of `method` addressed to the
\* scheduler service node.
ToScheduler(c, i, method) ==
  /\ sent[c][i].kind = "command"
  /\ sent[c][i].command.method = method
  /\ sent[c][i].command.to = <<"postmaster", "@", "scheduler.msging.net">>

\* C7: scheduling a message with a name and then cancelling by that name
\* hands exactly two commands to the client, a SET and then a DELETE, both
\* addressed to postmaster@scheduler.msging.net; neither is sent again,
\* whatever the client answers to the DELETE.
C7_ScheduleThenCancel ==
  \A c \in Callers :
    /\ Len(sent[c]) <= 2
    /\ (/\ op[c] = "SchedulerExtension.cancel_scheduled_message_async"
        /\ Truthy(args[c].name))
         => /\ Len(sent[c]) = 2
            /\ ToScheduler(c, 1, "set")
            /\ ToScheduler(c, 2, "delete")
            /\ sent[c][1] # sent[c][2]

\* The message was scheduled and its cancellation has returned.
C7_Cancelled ==
  \E c \in Callers :
    /\ pc[c] = "done"
    /\ op[c] = "SchedulerExtension.cancel_scheduled_message_async"
    /\ result[c] = Return(NoneVal)
    /\ Len(sent[c]) = 2

\* --------------------------------------------------- calls in flight (C10)

\* The answers the client gives while two calls are in flight.
ConcurrentAnswers ==
  {Response("success", NoneRes, <<>>),
   Response("success", DictRes([text |-> <<"hi">>]), <<>>),
   Response("failure", NoneRes, <<"Resource", "not found">>),
   TransportError(<<"Connection", "timed out">>)}

\* The client answers a command in flight; the other call may still wait.
ClientResponds(c) ==
  \E answer \in ConcurrentAnswers : ClientAnswer(c, answer)

\* Two callers: their calls start, are answered and resume in any order.
NextConcurrent ==
  \E c \in Callers :
     \/ SchedulerExtension_schedule_message_async(c)
     \/ SchedulerExtension_cancel_scheduled_message_async(c)
     \/ BroadcastExtension_create_distribution_list_async(c)
     \/ ProfileExtension_get_greeting_async(c)
     \/ ClientResponds(c)
     \/ Resume(c)
     \/ ReturnToCaller(c)

SpecConcurrent == Init /\ [][NextConcurrent]_vars

\* All there is of caller c's call.
CallOf(c) == <<op[c], args[c], pc[c], cont[c], sent[c], reply[c], result[c]>>

\* A step is a step of one call: it leaves the other call as it is.
OneCallSteps ==
  \A c, d \in Callers : (c # d /\ CallOf(c)' # CallOf(c)) => CallOf(d)' = CallOf(d)

\* Two calls of the same operation with the same arguments dispatch the
\* same command and, answered alike, end alike.
SameCallSameOutcome ==
  \A c, d \in Callers :
    (op[c] = op[d] /\ args[c] = args[d]) =>
      /\ (pc[c] \in {"awaiting", "answered", "done"} /\ pc[d] = pc[c]) => sent[c] = sent[d]
      /\ (pc[c] = "done" /\ pc[d] = "done" /\ reply[c] = reply[d]) => result[c] = result[d]

\* C10: two calls in flight are independent: in every interleaving a step of
\* one call changes nothing of the other, and the command a call dispatches
\* and the result or error it ends with are determined by its own operation,
\* arguments and answer.
C10_CallsIndependent == [][OneCallSteps]_vars /\ []SameCallSameOutcome

\* Two calls are in flight at once, answered differently and not yet resumed.
C10_TwoInFlight ==
  /\ pc[1] = "answered" /\ pc[2] = "answered"
  /\ op[1] = "SchedulerExtension.schedule_message_async"
  /\ op[2] = "SchedulerExtension.cancel_scheduled_message_async"
  /\ reply[1] # reply[2]

\* ------------------------------------------------- destination address (C11)

\* The operations of each extension.
BucketOps ==
  {"BucketExtension.get_async",
   "BucketExtension.get_ids_async",
   "BucketExtension.set_async",
   "BucketExtension.delete_async",
   "BucketExtension.get_text_async",
   "BucketExtension.set_text_async"}

BroadcastOps ==
  {"BroadcastExtension.create_distribution_list_async",
   "BroadcastExtension.get_all_distribution_lists_async",
   "BroadcastExtension.delete_distribution_list_async",
   "BroadcastExtension.add_recipient_async",
   "BroadcastExtension.delete_recipient_async",
   "BroadcastExtension.has_recipient_async",
   "BroadcastExtension.get_recipients_async",
   "BroadcastExtension.send_message_async"}

ProfileOps ==
  {"ProfileExtension.get_get_started_async",
   "ProfileExtension.set_get_started_async",
   "ProfileExtension.delete_get_started_async",
   "ProfileExtension.get_greeting_async",
   "ProfileExtension.set_greeting_async",
   "ProfileExtension.delete_greeting_async",
   "ProfileExtension.get_persistent_menu_async",
   "ProfileExtension.set_persistent_menu_async",
   "ProfileExtension.delete_persistent_menu_async"}

SchedulerOps ==
  {"SchedulerExtension.schedule_message_async",
   "SchedulerExtension.cancel_scheduled_message_async",
   "SchedulerExtension.get_scheduled_messages_async"}

ThreadsOps ==
  {"ThreadsExtension.create_thread_async",
   "ThreadsExtension.get_thread_async",
   "ThreadsExtension.get_threads_async",
   "ThreadsExtension.add_participant_async",
   "ThreadsExtension.remove_participant_async",
   "ThreadsExtension.delete_thread_async"}

HelpDeskOps ==
  {"HelpDeskExtension.forward_message_to_agent_async",
   "HelpDeskExtension.create_ticket_async",
   "HelpDeskExtension.create_ticket_with_data_async",
   "HelpDeskExtension.close_ticket_as_user",
   "HelpDeskExtension.close_ticket_as_user_without_redirect",
   "HelpDeskExtension.get_user_open_tickets_async",
   "HelpDeskExtension.get_customer_active_ticket_async"}

TunnelOps ==
  {"TunnelExtension.forward_message_async",
   "TunnelExtension.forward_notification_async",
   "TunnelExtension.create_tunnel_async",
   "TunnelExtension.get_tunnel_async",
   "TunnelExtension.delete_tunnel_async",
   "TunnelExtension.get_tunnels_async"}

ContactsOps ==
  {"ContactsExtension.get_async",
   "ContactsExtension.get_contacts_async",
   "ContactsExtension.set_async",
   "ContactsExtension.merge_async",
   "ContactsExtension.delete_async"}

ContactsJourneyOps ==
  {"ContactsJourneyExtension.add_async"}

ResourceOps ==
  {"ResourceExtension.get_async",
   "ResourceExtension.set_async",
   "ResourceExtension.delete_async",
   "ResourceExtension.get_all_async"}

EventTrackerOps ==
  {"EventTrackerExtension.track_async",
   "EventTrackerExtension.get_categories_async",
   "EventTrackerExtension.get_actions_async"}

BuilderOps ==
  {"BuilderExtension.get_flow_async",
   "BuilderExtension.set_flow_async",
   "BuilderExtension.delete_flow_async",
   "BuilderExtension.get_flows_async"}

DelegationOps ==
  {"DelegationExtension.delegate_message_async",
   "DelegationExtension.get_delegations_async"}

DirectoryOps ==
  {"DirectoryExtension.get_directory_account_async"}

\* The commands caller c has handed to the client.
CommandsOf(c) == {i \in 1..Len(sent[c]) : sent[c][i].kind = "command"}

Postmaster(domain) == <<"postmaster", "@", domain>>

\* The well-known service nodes, postmaster@<subdomain>.msging.net.
ServiceNodes ==
  {Postmaster(d) : d \in
     {"msging.net", "bucket.msging.net", "broadcast.msging.net", "builder.msging.net",
      "crm.msging.net", "analytics.msging.net", "delegation.msging.net",
      "desk.msging.net", "scheduler.msging.net", "threads.msging.net",
      "tunnel.msging.net", "directory.msging.net", "profile.msging.net"}}

\* C11 as stated: every command dispatched is addressed to a well-known
\* service node postmaster@<subdomain>.msging.net, whatever the arguments of
\* the call and the `to` given to the constructor.
C11_WellKnownDestination ==
  \A c \in Callers : \A i \in CommandsOf(c) : sent[c][i].command.to \in ServiceNodes

\* The node an extension stores at construction and writes into every
\* command (Contacts and EventTracker hand theirs to the base constructor).
StoredAddress(o) ==
  CASE o \in BroadcastOps -> Postmaster("broadcast.msging.net")
    [] o \in BuilderOps -> Postmaster("builder.msging.net")
    [] o \in ContactsJourneyOps -> Postmaster("analytics.msging.net")
    [] o \in DelegationOps -> Postmaster("delegation.msging.net")
    [] o \in HelpDeskOps -> Postmaster("desk.msging.net")
    [] o \in SchedulerOps -> Postmaster("scheduler.msging.net")
    [] o \in ThreadsOps -> Postmaster("threads.msging.net")
    [] o \in TunnelOps -> Postmaster("tunnel.msging.net")
    [] o \in ContactsOps -> Postmaster("crm.msging.net")
    [] o \in EventTrackerOps -> Postmaster("analytics.msging.net")

\* C11, amended: the extensions that keep a service node of their own
\* address every command to it, whatever the arguments and the constructor's
\* `to`; the commands of Bucket and Profile go to the constructor's `to`
\* (none by default), those of Resource to it or to postmaster@msging.net,
\* and those of Directory to postmaster@<domain of the identity asked for>.
C11_DestinationByExtension ==
  \A c \in Callers : \A i \in CommandsOf(c) :
    LET to == sent[c][i].command.to
    IN  CASE op[c] \in BucketOps \cup ProfileOps -> to = ctorTo
          [] op[c] \in ResourceOps ->
               to = IF ctorTo = None THEN Postmaster("msging.net") ELSE ctorTo
          [] op[c] \in DirectoryOps -> to = <<"postmaster", "@">> \o args[c].identity.domain
          [] OTHER -> to = StoredAddress(op[c])

\* A directory query is in flight for an identity outside msging.net, from
\* an extension constructed with a custom `to`.
C11_DirectoryDomain ==
  \E c \in Callers :
    /\ op[c] = "DirectoryExtension.get_directory_account_async"
    /\ pc[c] = "awaiting" /\ ctorTo = CustomTo
    /\ sent[c][1].command.to = <<"postmaster", "@", "d.com">>

\* ------------------------------------------------------- pagination (C12)

\* The operations that accept `skip` and `take`.
PaginatedOps ==
  {"BucketExtension.get_ids_async",
   "BroadcastExtension.get_all_distribution_lists_async",
   "BroadcastExtension.get_recipients_async",
   "SchedulerExtension.get_scheduled_messages_async",
   "ThreadsExtension.get_threads_async",
   "TunnelExtension.get_tunnels_async",
   "ContactsExtension.get_contacts_async",
   "ResourceExtension.get_all_async",
   "EventTrackerExtension.get_categories_async",
   "EventTrackerExtension.get_actions_async",
   "BuilderExtension.get_flows_async",
   "DelegationExtension.get_delegations_async"}

\* The URI has the query entry name=value.
HasParam(uri, name, value) ==
  \E i \in 1..Len(uri) :
    /\ uri[i] = name
    /\ SubSeq(uri, i + 1, i + 1 + Len(value)) = <<"=">> \o value

\* The URI has a query entry of that name.
HasParamNamed(uri, name) == \E i \in 1..Len(uri) : uri[i] = name

\* C12: a paginated operation called with `skip` and `take` dispatches a GET
\* command whose URI has $skip and $take with the caller's values.
C12_SkipTakeInUri ==
  \A c \in Callers :
    (/\ op[c] \in PaginatedOps /\ pc[c] # "idle"
     /\ args[c].skip # NoneInt /\ args[c].take # NoneInt) =>
      \A i \in 1..Len(sent[c]) :
        /\ sent[c][i].command.method = "get"
        /\ HasParam(sent[c][i].command.uri, "$skip", <<ToString(args[c].skip)>>)
        /\ HasParam(sent[c][i].command.uri, "$take", <<ToString(args[c].take)>>)

\* ------------------------------------------------- percent-encoding (C13)

\* urllib.parse.unquote: every %XX escape becomes the character it stands for.
RECURSIVE Unquote(_)
Unquote(s) ==
  IF s = <<>> THEN <<>>
  ELSE IF Len(s) >= 3 /\ s[1] = "%" /\ SubSeq(s, 2, 3) \in
            {<<"2", "0">>, <<"2", "F">>, <<"4", "0">>, <<"2", "5">>, <<"2", "7">>}
  THEN LET hex == SubSeq(s, 2, 3)
           ch  == CASE hex = <<"2", "0">> -> " "
                    [] hex = <<"2", "F">> -> "/"
                    [] hex = <<"4", "0">> -> "@"
                    [] hex = <<"2", "5">> -> "%"
                    [] hex = <<"2", "7">> -> "'"
       IN  <<ch>> \o Unquote(SubSeq(s, 4, Len(s)))
  ELSE <<Head(s)>> \o Unquote(Tail(s))

ListPathOps ==
  {"BroadcastExtension.delete_distribution_list_async",
   "BroadcastExtension.add_recipient_async",
   "BroadcastExtension.delete_recipient_async",
   "BroadcastExtension.has_recipient_async",
   "BroadcastExtension.get_recipients_async"}

RecipientPathOps ==
  {"BroadcastExtension.delete_recipient_async", "BroadcastExtension.has_recipient_async"}

CustomerPathOps == {"HelpDeskExtension.create_ticket_async"}

ThreadPathOps ==
  ThreadIdOps \cup {"ThreadsExtension.add_participant_async",
                    "ThreadsExtension.remove_participant_async"}

ParticipantPathOps == {"ThreadsExtension.remove_participant_async"}

PathSegmentOps ==
  ListPathOps \cup CustomerPathOps \cup ThreadPathOps \cup FlowIdOps
    \cup TunnelIdOps \cup NameOps

\* The identifiers and names the call of caller c places in the URI path.
PathSegmentsOf(c) ==
  (IF op[c] \in ListPathOps
   THEN {IdentityStr(GetListIdentity(args[c].list_name))} ELSE {})
  \cup (IF op[c] \in RecipientPathOps
        THEN {IdentityStr(args[c].recipient_identity)} ELSE {})
  \cup (IF op[c] \in CustomerPathOps
        THEN {IdentityStr(args[c].customer_identity)} ELSE {})
  \cup (IF op[c] \in ThreadPathOps THEN {args[c].thread_id} ELSE {})
  \cup (IF op[c] \in ParticipantPathOps
        THEN {IdentityStr(args[c].participant)} ELSE {})
  \cup (IF op[c] \in FlowIdOps THEN {args[c].flow_id} ELSE {})
  \cup (IF op[c] \in TunnelIdOps THEN {args[c].tunnel_id} ELSE {})
  \cup (IF op[c] \in NameOps THEN {args[c].name} ELSE {})

\* Some part of the URI is the percent-encoding of the segment, applied
\* once: it is in encoded form, and decoding it once gives the segment back.
EncodedOnceIn(uri, segment) ==
  \E i \in 1..(Len(uri) + 1), j \in 0..Len(uri) :
    LET part == SubSeq(uri, i, j)
    IN  /\ Quote(Unquote(part)) = part
        /\ Unquote(part) = segment

\* C13: every identifier or name placed in the path of a dispatched command's
\* URI is percent-encoded exactly once: decoding it once gives the original.
C13_PathSegmentsEncodedOnce ==
  \A c \in Callers :
    (op[c] \in PathSegmentOps /\ pc[c] # "idle") =>
      \A i \in 1..Len(sent[c]) :
        sent[c][i].kind = "command" =>
          \A segment \in PathSegmentsOf(c) :
            EncodedOnceIn(sent[c][i].command.uri, segment)

\* ------------------------------------------------- unset parameters (C14)

\* The paginated operations whose query goes through build_resource_query
\* and whose skip and take may be None.
OptionalPagingOps ==
  {"ContactsExtension.get_contacts_async",
   "ResourceExtension.get_all_async",
   "EventTrackerExtension.get_categories_async",
   "EventTrackerExtension.get_actions_async"}

\* C14: a paginated operation called with skip None dispatches a URI with no
\* $skip, and called with take None a URI with no $take; with both None (and
\* no other parameter) the URI has no query at all.
C14_UnsetParamsSkipped ==
  \A c \in Callers :
    (op[c] \in OptionalPagingOps /\ pc[c] # "idle") =>
      \A i \in 1..Len(sent[c]) :
        LET uri == sent[c][i].command.uri
        IN  /\ args[c].skip = NoneInt => ~HasParamNamed(uri, "$skip")
            /\ args[c].take = NoneInt => ~HasParamNamed(uri, "$take")
            /\ (/\ args[c].skip = NoneInt /\ args[c].take = NoneInt
                /\ op[c] # "EventTrackerExtension.get_actions_async")
                 => ~HasParamNamed(uri, "?")

\* get_contacts_async() with neither skip nor take went out as GET /contacts.
C14_ContactsNoPaging ==
  /\ op[1] = "ContactsExtension.get_contacts_async"
  /\ args[1].skip = NoneInt /\ args[1].take = NoneInt
  /\ pc[1] = "awaiting"
  /\ sent[1][1].command.uri = CONTACTS

\* ---------------------------------------------- response passed through (C15)

\* The operations documented to return the command response.
CommandResponseOps ==
  (BucketOps \ {"BucketExtension.get_text_async", "BucketExtension.set_text_async"})
    \cup ContactsOps \cup ResourceOps \cup EventTrackerOps

SuccessReply(c) == reply[c].kind = "response" /\ reply[c].status = "success"

\* C15: answered with a success response, an operation documented to return
\* the command response returns exactly that response, unchanged.
C15_ResponseReturnedUnchanged ==
  \A c \in Callers :
    (pc[c] = "done" /\ op[c] \in CommandResponseOps /\ SuccessReply(c)) =>
      result[c] = Return(CommandVal(reply[c]))

\* ContactsExtension.get_async returned the success response carrying a contact.
C15_ContactReturned ==
  \E c \in Callers :
    /\ pc[c] = "done" /\ op[c] = "ContactsExtension.get_async"
    /\ SuccessReply(c)
    /\ IsDict(reply[c].resource) /\ "fullName" \in DOMAIN reply[c].resource.d
    /\ result[c].kind = "return"
    /\ result[c].value.c.resource = reply[c].resource

\* ------------------------------------------------ get_text not found (C16)

\* C16: BucketExtension.get_text_async answered with a not-found failure
\* returns None; answered with a document holding a text, it returns the text.
C16_GetTextNotFoundReturnsNone ==
  \A c \in Callers :
    (pc[c] = "done" /\ op[c] = "BucketExtension.get_text_async") =>
      /\ NotFoundReply(c) => result[c] = Return(NoneVal)
      /\ (/\ SuccessReply(c) /\ IsDict(reply[c].resource)
          /\ "text" \in DOMAIN reply[c].resource.d)
           => result[c] = Return(StrVal(reply[c].resource.d["text"]))

\* ------------------------------------------------------ non-empty URI (C17)

\* C17: every command handed to the client carries a non-empty URI.
C17_UriNotEmpty ==
  \A c \in Callers :
    \A i \in 1..Len(sent[c]) :
      sent[c][i].kind = "command" =>
        /\ sent[c][i].command.uri # <<>>
        /\ \E k \in 1..Len(sent[c][i].command.uri) : sent[c][i].command.uri[k] # ""

\* get_categories_async() without paging has handed the client the bare
\* template of the events collection.
C17_BareEventsUri ==
  /\ op[1] = "EventTrackerExtension.get_categories_async"
  /\ pc[1] = "awaiting"
  /\ sent[1][1].kind = "command"
  /\ ~HasParamNamed(sent[1][1].command.uri, "?")
  /\ Len(sent[1][1].command.uri) = 1

\* ------------------------------------------- profile SET and DELETE (C18)

ProfileWriteOps == ProfileOps \ ProfileGetOps

\* C18: a SET or DELETE operation of ProfileExtension whose dispatch has
\* failed, whatever the message of the failure, ends with that error.
C18_ProfileWritesReraise ==
  \A c \in Callers :
    (pc[c] = "done" /\ op[c] \in ProfileWriteOps /\ Failed(c)) =>
      /\ result[c].kind = "raise"
      /\ result[c].message =
           (IF TransportReply(c) THEN reply[c].message ELSE reply[c].reason)

\* ---------------------------------------------------- fire and forget (C19)

\* Caller c's add_async has passed its checks and handed a command over.
JourneyDispatched(c) ==
  op[c] = "ContactsJourneyExtension.add_async" /\ sent[c] # <<>>

\* C19: add_async hands the client exactly one command, addressed to
\* postmaster@analytics.msging.net: with fire_and_forget an OBSERVE, and the
\* call does not wait for its response; without, a SET, and the call
\* completes only when the response has arrived.
C19_FireAndForget ==
  \A c \in Callers :
    JourneyDispatched(c) =>
      /\ Len(sent[c]) = 1
      /\ sent[c][1].kind = "command"
      /\ sent[c][1].command.to = <<"postmaster", "@", "analytics.msging.net">>
      /\ sent[c][1].command.method =
           (IF args[c].fire_and_forget THEN "observe" ELSE "set")
      /\ args[c].fire_and_forget => pc[c] \notin {"awaiting", "answered"}
      /\ (~args[c].fire_and_forget /\ pc[c] = "done") => reply[c] # NoReply

\* ------------------------------------------------- instance state (C20)

\* C20: no step of any operation, successful or failed, changes what the
\* extension instance holds: its service address stays as set at construction.
C20_InstanceUnchanged == [][ctorTo' = ctorTo]_vars

\* On an instance constructed with a custom address, create_thread_async has
\* ended with the error of a failed dispatch.
C20_FailedOnCustomInstance ==
  \E c \in Callers :
    /\ ctorTo = CustomTo
    /\ pc[c] = "done" /\ op[c] = "ThreadsExtension.create_thread_async"
    /\ Failed(c) /\ result[c].kind = "raise"

\* --------------------------------------------- commands once sent (C21)

\* The operations that write a node into `command.to` themselves, and those
\* whose extension hands a node to the base constructor.
AddressedOps ==
  BroadcastOps \cup BuilderOps \cup ContactsJourneyOps \cup DelegationOps
    \cup HelpDeskOps \cup SchedulerOps \cup ThreadsOps \cup TunnelOps
    \cup ContactsOps \cup EventTrackerOps \cup DirectoryOps

\* A command has its destination when it reaches the client.
AddressedWhenSent ==
  \A c \in Callers :
    op[c] \in AddressedOps =>
      \A i \in CommandsOf(c) : sent[c][i].command.to # None

\* A step changes no envelope that was handed to the client.
SentUnchanged ==
  \A c \in Callers :
    \A i \in 1..Len(sent[c]) :
      i <= Len(sent'[c]) => sent'[c][i] = sent[c][i]

\* C21: a command has its destination address when it is handed to the
\* client, and no field of a command changes after it was sent: the profile
\* not-found path answers with a new command and leaves the sent one alone.
C21_CompleteThenImmutable == []AddressedWhenSent /\ [][SentUnchanged]_vars

\* set_greeting_async was answered with a failure that the override
\* swallowed: it has returned, and the SET command it sent still carries its
\* payload.
C21_SwallowedSetKeepsPayload ==
  \E c \in Callers :
    /\ pc[c] = "done" /\ op[c] = "ProfileExtension.set_greeting_async"
    /\ FailureReply(c) /\ result[c].kind = "return"
    /\ Len(sent[c]) = 1
    /\ sent[c][1].command.method = "set"
    /\ sent[c][1].command.resource # NoneRes

\* ------------------------------------------------------- termination (C22)

\* The client answers, or fails, what caller c has handed to it.
ClientSettles(c) ==
  \/ ClientRespondSuccess(c)
  \/ ClientRespondFailure(c)
  \/ ClientDeliverMessage(c)
  \/ ClientTransportFailure(c)

\* The sequential program under the assumption that the client eventually
\* settles every envelope, and with the event loop resuming a coroutine whose
\* awaited dispatch has been settled.
SpecLive ==
  /\ Init /\ [][Next]_vars
  /\ \A c \in SequentialCallers : WF_vars(ClientSettles(c)) /\ WF_vars(Resume(c))

\* C22: if the client eventually answers or fails everything it is given,
\* every invoked operation eventually completes, returning or raising.
C22_EveryCallCompletes ==
  \A c \in SequentialCallers :
    (pc[c] \in {"awaiting", "answered"})
      ~> (pc[c] = "done" /\ result[c].kind \in {"return", "raise"})

\* has_recipient_async, whose dispatch failed in transport, has completed.
C22_HasRecipientCompleted ==
  \E c \in Callers :
    /\ pc[c] = "done" /\ op[c] = "BroadcastExtension.has_recipient_async"
    /\ TransportReply(c) /\ result[c].kind = "return"

\* ------------------------------------------- has_recipient_async (C23)

\* C23: has_recipient_async raises ValueError and dispatches nothing for a
\* null recipient identity or a null, empty or whitespace-only list name;
\* otherwise it dispatches one GET command and returns True exactly when the
\* command got a success response.
C23_HasRecipientValidatesThenAsks ==
  \A c \in Callers :
    (pc[c] = "done" /\ op[c] = "BroadcastExtension.has_recipient_async") =>
      IF args[c].recipient_identity.isNone \/ Blank(args[c].list_name)
      THEN RaisedValueError(c) /\ sent[c] = <<>>
      ELSE /\ Len(sent[c]) = 1
           /\ sent[c][1].kind = "command" /\ sent[c][1].command.method = "get"
           /\ result[c] = Return(BoolVal(SuccessReply(c)))

\* has_recipient_async with a whitespace-only list name has raised ValueError.
C23_BlankListRejected ==
  \E c \in Callers :
    /\ pc[c] = "done" /\ op[c] = "BroadcastExtension.has_recipient_async"
    /\ ~args[c].recipient_identity.isNone
    /\ args[c].list_name = <<" ">>
    /\ RaisedValueError(c) /\ sent[c] = <<>>

\* ------------------------------------------------ text round trip (C24)

\* The path of a URI: what precedes its query string.
RECURSIVE PathOf(_)
PathOf(uri) ==
  IF uri = <<>> \/ Head(uri) = "?" THEN <<>> ELSE <<Head(uri)>> \o PathOf(Tail(uri))

\* The caller whose set_text_async has returned reads the text back by the
\* same id.
ThenGetText(c) ==
  /\ pc[c] = "done"
  /\ op[c] = "BucketExtension.set_text_async"
  /\ result[c].kind = "return"
  /\ Call(c, "BucketExtension.get_text_async", [id |-> args[c].id],
          GetText(args[c].id), sent[c])

\* A service that stores: it answers a SET with success and keeps its payload.
ServiceStores(c) ==
  /\ pc[c] = "awaiting"
  /\ Envelope(c).kind = "command" /\ Envelope(c).command.method = "set"
  /\ ClientAnswer(c, Response("success", NoneRes, <<>>))

\* It answers a GET with the payload of the SET it stored under that path,
\* and with a not-found failure when it has none.
ServiceReturnsStored(c) ==
  /\ pc[c] = "awaiting"
  /\ Envelope(c).kind = "command" /\ Envelope(c).command.method = "get"
  /\ IF /\ Len(sent[c]) = 2
        /\ sent[c][1].command.method = "set"
        /\ PathOf(sent[c][1].command.uri) = PathOf(Envelope(c).command.uri)
     THEN ClientAnswer(c, Response("success", sent[c][1].command.resource, <<>>))
     ELSE ClientAnswer(c, Response("failure", NoneRes, <<"Resource", "not found">>))

NextBucketText ==
  \E c \in SequentialCallers :
     \/ BucketExtension_set_text_async(c)
     \/ BucketExtension_get_text_async(c)
     \/ ThenGetText(c)
     \/ ServiceStores(c)
     \/ ServiceReturnsStored(c)
     \/ ClientTransportFailure(c)
     \/ Resume(c)
     \/ ReturnToCaller(c)

SpecBucketText == Init /\ [][NextBucketText]_vars

\* C24: set_text_async with a text that is not None dispatches one SET
\* command for the bucket item with payload {'text': text} and media type
\* text/plain, and a following get_text_async of the same id, answered by the
\* storing service, returns that text; with text None it raises ValueError
\* and dispatches nothing.
C24_TextRoundTrip ==
  \A c \in Callers :
    /\ (op[c] = "BucketExtension.set_text_async" /\ args[c].text = None) =>
         RaisedValueError(c) /\ sent[c] = <<>>
    /\ (/\ op[c] = "BucketExtension.set_text_async"
        /\ args[c].text # None /\ Truthy(args[c].id)) =>
         /\ Len(sent[c]) = 1
         /\ sent[c][1].kind = "command"
         /\ sent[c][1].command.method = "set"
         /\ PathOf(sent[c][1].command.uri) = <<"/buckets/">> \o Quote(args[c].id)
         /\ sent[c][1].command.resource = DictRes([text |-> args[c].text])
         /\ sent[c][1].command.type = <<"text/plain">>
    /\ (/\ op[c] = "BucketExtension.get_text_async"
        /\ Len(sent[c]) = 2 /\ pc[c] = "done" /\ SuccessReply(c)) =>
         result[c] = Return(StrVal(sent[c][1].command.resource.d["text"]))

\* The empty text was stored and read back as the empty text.
C24_EmptyTextReadBack ==
  \E c \in Callers :
    /\ op[c] = "BucketExtension.get_text_async"
    /\ Len(sent[c]) = 2 /\ pc[c] = "done" /\ SuccessReply(c)
    /\ sent[c][1].command.resource = DictRes([text |-> <<>>])
    /\ result[c] = Return(StrVal(<<>>))

\* ---------------------------------------------- expiration in ms (C25)

\* The whole milliseconds of a duration given in microseconds.
WholeMillis(expiration) == expiration \div 1000

\* C25: the SET command of BucketExtension.set_async carries an `expiration`
\* query parameter equal to the duration in whole milliseconds whenever an
\* expiration is given, and the bare bucket item URI when none is given.
C25_ExpirationInMillis ==
  \A c \in Callers :
    (op[c] = "BucketExtension.set_async" /\ sent[c] # <<>>) =>
      LET uri == sent[c][1].command.uri
      IN  IF args[c].expiration = NoneInt
          THEN uri = <<"/buckets/">> \o Quote(args[c].id)
          ELSE /\ PathOf(uri) = <<"/buckets/">> \o Quote(args[c].id)
               /\ HasParam(uri, "expiration",
                           <<ToString(WholeMillis(args[c].expiration))>>)

\* ------------------------------------------------ the open ticket (C26)

TicketQueryOps ==
  {"HelpDeskExtension.get_user_open_tickets_async",
   "HelpDeskExtension.get_customer_active_ticket_async"}

\* The items of the response caller c got, none when it has no mapping.
ItemsOfReply(c) ==
  IF IsDict(reply[c].resource) /\ "items" \in DOMAIN reply[c].resource.d
  THEN reply[c].resource.d.items
  ELSE <<>>

\* C26: the two ticket queries dispatch one GET command to
\* postmaster@desk.msging.net and, on success, return the first ticket of
\* the response's items with its five fields copied, or None when the
\* response has no resource or no items.
C26_FirstTicketReturned ==
  \A c \in Callers :
    (op[c] \in TicketQueryOps /\ pc[c] # "idle") =>
      /\ Len(sent[c]) = 1
      /\ sent[c][1].kind = "command"
      /\ sent[c][1].command.method = "get"
      /\ sent[c][1].command.to = <<"postmaster", "@", "desk.msging.net">>
      /\ (pc[c] = "done" /\ SuccessReply(c)) =>
           IF ItemsOfReply(c) = <<>>
           THEN result[c] = Return(NoneVal)
           ELSE LET first == ItemsOfReply(c)[1]
                    ticket == result[c].value
                IN  /\ result[c].kind = "return"
                    /\ ticket.id = Get(first, "id", None)
                    /\ ticket.status = Get(first, "status", None)
                    /\ ticket.customer_identity = Get(first, "customerIdentity", None)
                    /\ ticket.agent_identity = Get(first, "agentIdentity", None)
                    /\ ticket.context = Get(first, "context", None)

\* Of two different tickets in the response, the first was returned, with
\* its customer and agent.
C26_FirstOfTwoTickets ==
  \E c \in Callers :
    /\ op[c] = "HelpDeskExtension.get_user_open_tickets_async"
    /\ pc[c] = "done" /\ SuccessReply(c)
    /\ Len(ItemsOfReply(c)) = 2
    /\ ItemsOfReply(c)[1] # ItemsOfReply(c)[2]
    /\ "customerIdentity" \in DOMAIN ItemsOfReply(c)[1]
    /\ result[c].kind = "return"
    /\ result[c].value.customer_identity = ItemsOfReply(c)[1].customerIdentity
    /\ result[c].value.agent_identity = ItemsOfReply(c)[1].agentIdentity

\* ------------------------------------------- forwarding to the desk (C27)

\* C27: forward_message_to_agent_async hands the client exactly one message
\* and no command: its id is "fwd:" and the original id, or a fresh id when
\* the original has none; it is addressed to the percent-encoded original
\* sender at desk.msging.net; its content is the original content.
C27_ForwardedToDesk ==
  \A c \in Callers :
    (/\ op[c] = "HelpDeskExtension.forward_message_to_agent_async"
     /\ ~args[c].message.isNone /\ pc[c] # "idle") =>
      LET original == args[c].message
      IN  /\ Len(sent[c]) = 1
          /\ CommandsOf(c) = {}
          /\ sent[c][1].kind = "message"
          /\ sent[c][1].message.id =
               <<"fwd", ":">> \o (IF original.id \in {None, <<>>} THEN Uuid4 ELSE original.id)
          /\ sent[c][1].message.content = original.content
          /\ ~original.from_n.isNone =>
               LET to == sent[c][1].message.to
                   name == SubSeq(to, 1, Len(to) - 2)
               IN  /\ to = name \o <<"@", "desk.msging.net">>
                   /\ Quote(Unquote(name)) = name
                   /\ Unquote(name) = IdentityStr(original.from_n)

\* A message from "u @d.com" is on its way to u%20%40d.com@desk.msging.net.
C27_SenderEncoded ==
  \E c \in Callers :
    /\ op[c] = "HelpDeskExtension.forward_message_to_agent_async"
    /\ pc[c] = "awaiting"
    /\ args[c].message.from_n = Identity(<<"u", " ">>, <<"d.com">>)
    /\ sent[c][1].message.to =
         <<"u", "%", "2", "0", "%", "4", "0", "d.com", "@", "desk.msging.net">>

\* --------------------------------------------------- absent fields (C28)

DocumentCollectionOps ==
  {"BroadcastExtension.get_all_distribution_lists_async",
   "BroadcastExtension.get_recipients_async"}

\* The operations that return `result.resource if result.resource else {}`.
MappingOps ==
  {"BuilderExtension.get_flow_async", "TunnelExtension.get_tunnel_async",
   "TunnelExtension.create_tunnel_async"}

\* The response has no resource, or one that is not a mapping.
NoMappingReply(c) == reply[c].resource = NoneRes \/ ~IsDict(reply[c].resource)

\* C28: of a success response with items and no total, BroadcastExtension
\* returns a DocumentCollection whose total is the number of items; of a
\* success response with no resource, or with a resource that is not a
\* mapping, the collection operations return an empty collection (total 0)
\* or an empty list, and get_flow_async, get_tunnel_async and
\* create_tunnel_async return an empty mapping.
C28_AbsentFieldsDefaulted ==
  \A c \in Callers :
    (pc[c] = "done" /\ SuccessReply(c)) =>
      /\ (/\ op[c] \in DocumentCollectionOps
          /\ IsDict(reply[c].resource)
          /\ "items" \in DOMAIN reply[c].resource.d
          /\ "total" \notin DOMAIN reply[c].resource.d) =>
           result[c] = Return(DocumentCollection(reply[c].resource.d.items,
                                                 Len(reply[c].resource.d.items)))
      /\ (op[c] \in DocumentCollectionOps /\ NoMappingReply(c)) =>
           result[c] = Return(DocumentCollection(<<>>, 0))
      /\ (op[c] \in CollectionOps \ DocumentCollectionOps /\ NoMappingReply(c)) =>
           result[c] = Return(ListVal(<<>>))
      /\ (op[c] \in MappingOps /\ NoMappingReply(c)) =>
           result[c] = Return(ResourceVal(DictRes(EmptyDict)))


\* ------------------------------------------------- directory account (C29)

\* The identity asked for is None, or its domain is empty or only whitespace.
NoDirectoryDomain(identity) ==
  \/ identity = NoneIdentity
  \/ identity.domain = <<>>
  \/ \A i \in 1..Len(identity.domain) : identity.domain[i] = " "

\* C29: get_directory_account_async raises ValueError and dispatches nothing
\* when the identity is null or its domain is empty or whitespace-only;
\* otherwise it dispatches exactly one GET to postmaster@<the identity's
\* domain>, and of a success response with a non-empty mapping it returns an
\* Account with identity, fullName, photoUri and inboxUri under the four
\* fixed fields and every other response key as an extra field with its
\* value unchanged.
C29_DirectoryAccount ==
  \A c \in Callers :
    (op[c] = "DirectoryExtension.get_directory_account_async" /\ pc[c] # "idle") =>
      LET identity == args[c].identity IN
      IF NoDirectoryDomain(identity)
      THEN RaisedValueError(c) /\ sent[c] = <<>>
      ELSE /\ Len(sent[c]) = 1
           /\ sent[c][1].kind = "command"
           /\ sent[c][1].command.method = "get"
           /\ sent[c][1].command.to = <<"postmaster", "@">> \o identity.domain
           /\ (pc[c] = "done" /\ SuccessReply(c) /\ IsDict(reply[c].resource)
                  /\ reply[c].resource.d # EmptyDict) =>
                LET d == reply[c].resource.d IN
                /\ result[c].kind = "return"
                /\ result[c].value.t = "account"
                /\ result[c].value.identity = Get(d, "identity", None)
                /\ result[c].value.full_name = Get(d, "fullName", None)
                /\ result[c].value.photo_uri = Get(d, "photoUri", None)
                /\ result[c].value.inbox_uri = Get(d, "inboxUri", None)
                /\ DOMAIN result[c].value.extras = DOMAIN d \ AccountKeys
                /\ \A k \in DOMAIN d \ AccountKeys : result[c].value.extras[k] = d[k]
=============================================================================
